---- MODULE Spec2Model ----
(***************************************************************************)
(* A model of srm (src/src/main.rs): the relocation engine, the metadata   *)
(* store, the space admission guard, the short-id allocator and the        *)
(* interrupt / rollback coordinator of the delete batch.                   *)
(*                                                                         *)
(* Sizes are scaled: one unit stands for a block of bytes, so that the     *)
(* thresholds of the code (10 MiB, 100 MiB, the u64 range) keep their      *)
(* order but fit the model checker's integers.                             *)
(***************************************************************************)
EXTENDS Integers, Sequences, FiniteSets, TLC

\* ------------------------------------------------------------------ bounds

\* Number of user entries (paths) of the modelled world.
NItems == 2
\* Number of trash ids (relocation attempts) a run may allocate.
MaxIds == 2
\* Number of delete commands a run may start.
MaxCmds == 1
\* Number of restore, clean and list commands a run may start.
MaxStoreCmds == 1
\* Number of identifiers of one restore command that follows a delete.
MaxNames == 1
\* Number of identifiers of one restore command on a persisted store.
MaxStoreNames == 2
\* Number of distinct values of the 6-hex-digit md5 prefix.
NPrefixes == 2
\* Size of a file stored inside a directory item.
LeafSize == 1
MaxRequired == 36
MaxAvail == 45

\* ------------------------------------------------------- program constants

\* u64::MAX, scaled (checked_mul overflows above it).
WordMax == 4095
\* 100 * 1024 * 1024, scaled: from here on 120% of the size is required.
SpaceThreshold == 10
\* 10 * 1024 * 1024, scaled: above it a file is copied by mmap_copy.
MmapThreshold == 4
\* MMAP_CHUNK_SIZE, scaled.
MMAP_CHUNK_SIZE == 3
\* MAX_FILE_SPACE_RATIO, in percent.
MAX_FILE_SPACE_RATIO == 80
\* The multiplier and divisor of the 120% rule.
SpaceMul == 120
SpaceDiv == 100

Items == 1..NItems
TrashIds == 1..MaxIds
Prefixes == 1..NPrefixes

\* ------------------------------------------------------------ entry trees

\* An entry is a tree of nodes: "r" is the entry itself (a file, a symlink or
\* the root directory), "a" a file in the root, "s" a subdirectory of the
\* root, "b" a file in "s".
Nodes == {"r", "a", "s", "b"}
Parent == [n \in Nodes |-> IF n = "b" THEN "s" ELSE "r"]
\* The walker's limit on the depth of a directory (the root has depth 0).
MAX_RECURSION_DEPTH == 1000

\* The content of a node at one place: absent, complete, or partly written.
Absent == [n \in Nodes |-> "none"]

\* The kinds of entry a path may name.  xdev: the original path is on another
\* filesystem than the quarantine.  link: how a symlink's target resolves once
\* the link sits in the quarantine ("abs_same": an absolute target on the
\* quarantine's device, "abs_other": an absolute target on another device,
\* "rel": a relative target, dangling from inside the quarantine).  levels: "s"
\* stands for the last directory of a chain of nested directories that starts
\* in the root and has no other entries; levels is the depth of "s".  policy:
\* what the safety checks see in the path ("protected": the entry is located
\* under one of PROTECTED_PATHS; "protected_target": a symlink whose target
\* begins with one of them; "traversal": the supplied path string contains ".."
\* or begins with '-').  within: the entry whose directory holds this entry as
\* its entry "a" (0: the path lies inside no other path of the world).
K(ftype, xdev, size, nodes, link) ==
    [ftype |-> ftype, xdev |-> xdev, size |-> size, nodes |-> nodes, link |-> link,
     levels |-> 1, policy |-> "none", within |-> 0]
\* Files of the same filesystem, of each size the admission guard tells apart.
AdmissionKinds ==
    <<K("File", FALSE, 0, {"r"}, "none"),
      K("File", FALSE, 4, {"r"}, "none"),
      K("File", FALSE, 5, {"r"}, "none"),
      K("Dir", FALSE, 0, {"r", "a"}, "none")>>
\* Entries of each type, on the quarantine's filesystem and on another one.
RelocationKinds ==
    <<K("File", FALSE, 4, {"r"}, "none"),
      K("File", TRUE, 4, {"r"}, "none"),
      K("File", TRUE, 5, {"r"}, "none"),
      K("Symlink", FALSE, 1, {"r"}, "abs_same"),
      K("Symlink", FALSE, 1, {"r"}, "rel"),
      K("Symlink", TRUE, 1, {"r"}, "abs_same"),
      K("Dir", FALSE, 0, {"r", "a"}, "none"),
      K("Dir", TRUE, 0, {"r", "a"}, "none"),
      K("Dir", TRUE, 0, {"r", "a", "s", "b"}, "none")>>

\* Trees with a directory below the depth limit of the walker.
DeepKinds ==
    <<[K("Dir", FALSE, 0, {"r", "a", "s", "b"}, "none")
            EXCEPT !.levels = MAX_RECURSION_DEPTH + 1],
      [K("Dir", TRUE, 0, {"r", "a", "s", "b"}, "none")
            EXCEPT !.levels = MAX_RECURSION_DEPTH + 1]>>

\* Paths the safety checks of a delete are about, and an ordinary file.
PolicyKinds ==
    <<K("File", FALSE, 4, {"r"}, "none"),
      [K("File", FALSE, 4, {"r"}, "none") EXCEPT !.policy = "protected"],
      [K("File", FALSE, 4, {"r"}, "none") EXCEPT !.policy = "traversal"],
      [K("Symlink", FALSE, 1, {"r"}, "abs_same") EXCEPT !.policy = "protected"],
      [K("Symlink", FALSE, 1, {"r"}, "abs_same") EXCEPT !.policy = "protected_target"]>>

\* A file and the directory that holds it, both named by paths of a command.
NestedKinds ==
    [i \in Items |-> IF i = 1
                     THEN [K("File", FALSE, LeafSize, {"r"}, "none") EXCEPT !.within = 2]
                     ELSE K("Dir", FALSE, 0, {"r", "a"}, "none")]

\* Available space of the quarantine filesystem (fs2::available_space).
Avails == {0, 1, 5, 10}
PlentyAvail == 10

\* The worlds: the kinds of the entries (in a fixed order, the order of the
\* paths of a command being free) and the available space.
KindsFrom(q) == {f \in [Items -> 1..Len(q)] : \A i \in Items : i > 1 => f[i - 1] <= f[i]}
Worlds ==
    {[kind |-> [i \in Items |-> AdmissionKinds[f[i]]], avail |-> a] :
        f \in KindsFrom(AdmissionKinds), a \in Avails}
    \cup {[kind |-> [i \in Items |-> RelocationKinds[f[i]]], avail |-> PlentyAvail] :
        f \in KindsFrom(RelocationKinds)}
    \cup {[kind |-> [i \in Items |-> DeepKinds[f[i]]], avail |-> PlentyAvail] :
        f \in KindsFrom(DeepKinds)}
    \cup {[kind |-> [i \in Items |-> PolicyKinds[f[i]]], avail |-> PlentyAvail] :
        f \in KindsFrom(PolicyKinds)}
    \cup {[kind |-> NestedKinds, avail |-> PlentyAvail]}

\* ------------------------------------------------------------------- state

VARIABLES
    kind,       \* Items -> Kinds: what each user path names
    avail,      \* available space on the quarantine filesystem
    orig,       \* Items -> [Nodes -> content]: the entry at its original path
    trash,      \* TrashIds -> [Nodes -> content]: trash_dir/<trash_id>
    metaDir,    \* TrashIds -> record or NoMeta: meta_dir/<trash_id>.meta
    tmpDir,     \* TrashIds -> content of meta_dir/<trash_id>.meta.tmp
    ids,        \* the trash ids allocated so far: ids[t] is the item named in <t>
    pc,         \* position of the running command
    INTERRUPTED,\* the process-wide cancellation flag
    paths,      \* handle_delete_batch: the caller-supplied paths
    force,      \* handle_delete_batch: the force override
    k,          \* handle_delete_batch: index of the next path / item
    items_to_delete,
    skipped,
    total_required_space,
    existing_short_ids,
    moved,
    failed,
    cur,        \* the item of the current loop iteration
    mv,         \* the running safe_move_with_progress call
    mvres,      \* its result
    rbq,        \* rollback: the items still to roll back
    report,     \* what the command reported
    budget,     \* commands the run may still start
    all_meta,   \* the trash ids of the records the last list_all_meta returned
    names,      \* handle_restore: the identifiers given
    short_id_map, \* handle_restore: short_id -> trash_id of the enumerated records
    restored,   \* handle_restore: the count of restored items
    todo,       \* clean_trash: the enumerated records its loop has yet to visit
    cleaned,    \* clean_trash: the count of cleaned items
    all,        \* clean_trash: the --all flag
    due,        \* clean_trash, handle_list: how `now` reads each record's delete_time
    probe       \* a call of a pure function: its arguments and its result

world == <<kind, avail, probe>>
fsys == <<orig, trash, metaDir, tmpDir>>
store_locals == <<names, short_id_map, restored, todo, cleaned, all, due>>
locals == <<paths, force, k, items_to_delete, skipped, total_required_space,
            existing_short_ids, moved, failed, cur, rbq, all_meta, store_locals>>
vars == <<kind, avail, orig, trash, metaDir, tmpDir, ids, pc, INTERRUPTED, store_locals, paths, force, k,
          items_to_delete, skipped, total_required_space, existing_short_ids,
          moved, failed, cur, mv, mvres, rbq, report, budget, all_meta,
          names, short_id_map, restored, todo, cleaned, all, due, probe>>

NoMeta == [state |-> "none"]
NoCur == [item |-> 0]
NoMv == [item |-> 0, tid |-> 0, out |-> FALSE, caller |-> "none",
         stack |-> <<>>, cur |-> "r", todo |-> {}, off |-> 0]
NoReport == [kind |-> "none"]
NoProbe == [fn |-> "none"]

\* --------------------------------------------------------- pure functions

\* u64::checked_mul: the product, or -1 for None.
checked_mul(a, b) == IF a * b > WordMax THEN -1 ELSE a * b

\* A variant whose single-file limit excludes the boundary.
check_disk_space_exclusive(available, required_bytes, is_single_file) ==
    IF available = 0 THEN "no_space"
    ELSE IF required_bytes >= SpaceThreshold /\ checked_mul(required_bytes, SpaceMul) = -1
    THEN "overflow"
    ELSE LET base_required == IF required_bytes < SpaceThreshold
                              THEN required_bytes
                              ELSE checked_mul(required_bytes, SpaceMul) \div SpaceDiv
             max_allowed == (available * MAX_FILE_SPACE_RATIO) \div 100
         IN  IF is_single_file /\ required_bytes >= max_allowed THEN "too_large"
             ELSE IF base_required > available THEN "insufficient"
             ELSE "ok"

\* A variant that requires the bare size whatever the size.
check_disk_space_flat(available, required_bytes, is_single_file) ==
    IF available = 0 THEN "no_space"
    ELSE IF required_bytes >= SpaceThreshold /\ checked_mul(required_bytes, SpaceMul) = -1
    THEN "overflow"
    ELSE LET max_allowed == (available * MAX_FILE_SPACE_RATIO) \div 100
         IN  IF is_single_file /\ required_bytes > max_allowed THEN "too_large"
             ELSE IF required_bytes > available THEN "insufficient"
             ELSE "ok"

\* check_disk_space: "ok", or the error it returns.
check_disk_space(available, required_bytes, is_single_file) ==
    IF available = 0 THEN "no_space"
    ELSE IF required_bytes >= SpaceThreshold /\ checked_mul(required_bytes, SpaceMul) = -1
    THEN "overflow"
    ELSE LET base_required == IF required_bytes < SpaceThreshold
                              THEN required_bytes
                              ELSE checked_mul(required_bytes, SpaceMul) \div SpaceDiv
             max_allowed == (available * MAX_FILE_SPACE_RATIO) \div 100
         IN  IF is_single_file /\ required_bytes > max_allowed THEN "too_large"
             ELSE IF base_required > available THEN "insufficient"
             ELSE "ok"

\* generate_short_id: the type tag and the hash prefix, then "_<counter>" appended
\* (to the previous candidate) until the candidate is not in `existing`.
RECURSIVE short_id_loop(_, _, _)
short_id_loop(candidate, counter, existing) ==
    IF candidate \in existing
    THEN short_id_loop(Append(candidate, counter), counter + 1, existing)
    ELSE candidate

type_prefix(file_type) ==
    CASE file_type = "File" -> "f" [] file_type = "Dir" -> "d" [] OTHER -> "l"

generate_short_id(hash, file_type, existing) ==
    short_id_loop(<<type_prefix(file_type), hash>>, 1, existing)

\* ------------------------------------------------------ filesystem helpers

Exists(c) == c["r"] # "none"
\* The depth the walker counts for a directory of entry i.
Level(i, n) == IF n = "r" THEN 0 ELSE kind[i].levels
FullEntry(i) == [n \in Nodes |-> IF n \in kind[i].nodes THEN "full" ELSE "none"]
IsDirNode(i, n) == kind[i].ftype = "Dir" /\ n \in {"r", "s"}
ChildrenAt(c, n) == {m \in Nodes : m # "r" /\ Parent[m] = n /\ c[m] # "none"}

\* calculate_dir_stats: the bytes of the files below a directory.
calculate_dir_stats(c) == LeafSize * Cardinality({n \in {"a", "b"} : c[n] # "none"})

\* Path::exists on trash_dir/<t>: it follows symlinks.
TrashPathExists(t) ==
    /\ t \in 1..Len(ids)
    /\ Exists(trash[t])
    /\ kind[ids[t]].ftype = "Symlink" => kind[ids[t]].link # "rel"

\* same_filesystem(trash_dir/<t>, trash_dir): fs::metadata follows symlinks.
same_filesystem_trash(t) ==
    /\ TrashPathExists(t)
    /\ kind[ids[t]].ftype = "Symlink" => kind[ids[t]].link = "abs_same"

\* serde_json::from_str::<FileMeta>: text that is no JSON document of the
\* struct fails, and so does a document without the short_id field (a String
\* with no default).
Deserializes(m) == m.state = "valid"

\* list_all_meta: the records it returns, and the metadata directory it leaves.
MetaValid(md, t) ==
    /\ Deserializes(md[t])
    /\ TrashPathExists(md[t].trash_path)
    /\ same_filesystem_trash(md[t].trash_path)
list_all_meta_map(md) == {t \in TrashIds : MetaValid(md, t)}
list_all_meta_dir(md) ==
    [t \in TrashIds |->
        IF md[t].state \in {"none", "unreadable"} \/ MetaValid(md, t) THEN md[t] ELSE NoMeta]
\* The short_id of a returned record (backfilled from the name when empty).
ListedShortId(md, t) == IF md[t].short_id = <<>> THEN <<"id", t>> ELSE md[t].short_id

\* ------------------------------------------------------------------- Init

PathSeqs == {<<i>> : i \in Items} \cup {<<i, j>> : i, j \in Items}

\* No command is running.
ProcInit ==
    /\ pc = "idle"
    /\ INTERRUPTED = FALSE
    /\ paths = <<>>
    /\ force = FALSE
    /\ k = 0
    /\ items_to_delete = <<>>
    /\ skipped = <<>>
    /\ total_required_space = 0
    /\ existing_short_ids = {}
    /\ moved = <<>>
    /\ failed = <<>>
    /\ cur = NoCur
    /\ mv = NoMv
    /\ mvres = "none"
    /\ rbq = <<>>
    /\ report = NoReport
    /\ all_meta = {}
    /\ names = <<>>
    /\ short_id_map = <<>>
    /\ restored = 0
    /\ todo = {}
    /\ cleaned = 0
    /\ all = FALSE
    /\ due = <<>>

\* Every entry is at its original path; the quarantine and the store are empty.
Init ==
    /\ \E w \in Worlds : kind = w.kind /\ avail = w.avail
    /\ orig = [i \in Items |-> FullEntry(i)]
    /\ trash = [t \in TrashIds |-> Absent]
    /\ metaDir = [t \in TrashIds |-> NoMeta]
    /\ tmpDir = [t \in TrashIds |-> "none"]
    /\ ids = <<>>
    /\ ProcInit
    /\ budget = [delete |-> MaxCmds, store |-> MaxStoreCmds]
    /\ probe = NoProbe

\* ----------------------------------------------------- handle_delete_batch

\* The values of the force flag worth telling apart: it only matters when a
\* path of the world has something the safety checks look at.
ForceChoices == IF \E i \in Items : kind[i].policy # "none" THEN BOOLEAN ELSE {FALSE}

\* The traversal check: without force, a path string that contains ".." or
\* begins with '-'.
TraversalDetected(p, f) == ~f /\ \E j \in 1..Len(p) : kind[p[j]].policy = "traversal"

\* The command starts: the interrupt handler is installed, the traversal check
\* runs over all the paths (the process exits with status 1 when it finds
\* one), the lists are empty.
BeginDelete(p, f) ==
    /\ pc = "idle"
    /\ budget.delete > 0
    /\ Len(ids) + Len(p) <= MaxIds
    /\ IF TraversalDetected(p, f)
       THEN pc' = "exit" /\ report' = [kind |-> "traversal_error"]
       ELSE pc' = "admit" /\ report' = NoReport
    /\ budget' = [budget EXCEPT !.delete = budget.delete - 1]
    /\ all_meta' = {}
    /\ INTERRUPTED' = FALSE
    /\ paths' = p
    /\ force' = f
    /\ k' = 1
    /\ items_to_delete' = <<>>
    /\ skipped' = <<>>
    /\ total_required_space' = 0
    /\ existing_short_ids' = {}
    /\ moved' = <<>>
    /\ failed' = <<>>
    /\ cur' = NoCur
    /\ rbq' = <<>>
    /\ UNCHANGED <<world, fsys, ids, mv, mvres, store_locals>>

\* One iteration of the admission loop over the paths.
AdmitOutcome(i) ==
    IF /\ ~force /\ Exists(orig[i])
       /\ kind[i].ftype = "Symlink" /\ kind[i].policy = "protected_target"
    THEN "Symlink targets protected path"
    ELSE IF ~Exists(orig[i]) THEN "Not found"
    ELSE IF ~force /\ kind[i].ftype # "Symlink" /\ kind[i].policy = "protected"
    THEN "Protected system path"
    ELSE IF kind[i].ftype = "Dir" /\ INTERRUPTED THEN "Failed to get dir stats"
    ELSE LET size_bytes == IF kind[i].ftype = "Dir" THEN calculate_dir_stats(orig[i])
                           ELSE kind[i].size
         IN  IF kind[i].ftype # "Dir" /\ size_bytes > 0
                /\ check_disk_space(avail, size_bytes, TRUE) # "ok"
             THEN check_disk_space(avail, size_bytes, TRUE)
             ELSE "accept"

AdmitPath ==
    /\ pc = "admit"
    /\ k <= Len(paths)
    /\ LET i == paths[k]
           size_bytes == IF kind[i].ftype = "Dir" THEN calculate_dir_stats(orig[i])
                         ELSE kind[i].size
       IN  IF AdmitOutcome(i) = "accept"
           THEN /\ total_required_space' = total_required_space + size_bytes
                /\ items_to_delete' = Append(items_to_delete,
                        [item |-> i, file_type |-> kind[i].ftype, size_bytes |-> size_bytes])
                /\ UNCHANGED skipped
           ELSE /\ skipped' = Append(skipped, [item |-> i, reason |-> AdmitOutcome(i)])
                /\ UNCHANGED <<total_required_space, items_to_delete>>
    /\ k' = k + 1
    /\ UNCHANGED <<world, fsys, ids, pc, INTERRUPTED, store_locals, paths, force, existing_short_ids, moved,
                   failed, cur, mv, mvres, rbq, report, budget, all_meta>>

\* A variant that goes on with the batch whatever the aggregate check says.
AggregateCheck_Ignored ==
    /\ pc = "admit"
    /\ k > Len(paths)
    /\ pc' = "enumerate"
    /\ UNCHANGED <<world, fsys, ids, INTERRUPTED, locals, mv, mvres, report, budget>>

\* The aggregate space check; on failure the process exits with status 1.
AggregateCheck ==
    /\ pc = "admit"
    /\ k > Len(paths)
    /\ IF check_disk_space(avail, total_required_space, FALSE) # "ok"
       THEN /\ pc' = "exit"
            /\ report' = [kind |-> "space_error",
                          error |-> check_disk_space(avail, total_required_space, FALSE)]
       ELSE /\ pc' = "enumerate"
            /\ UNCHANGED report
    /\ UNCHANGED <<world, fsys, ids, INTERRUPTED, locals, mv, mvres, budget>>

\* existing_short_ids: the short ids of the records list_all_meta returns.
EnumerateIds ==
    /\ pc = "enumerate"
    /\ all_meta' = list_all_meta_map(metaDir)
    /\ existing_short_ids' = {ListedShortId(metaDir, t) : t \in list_all_meta_map(metaDir)}
    /\ metaDir' = list_all_meta_dir(metaDir)
    /\ k' = 1
    /\ pc' = "loop"
    /\ UNCHANGED <<world, orig, trash, tmpDir, ids, INTERRUPTED, store_locals, paths, force, items_to_delete,
                   skipped, total_required_space, moved, failed, cur, mv, mvres, rbq,
                   report, budget>>

\* The head of the item loop: poll the flag, else allocate the trash id and the
\* short id of the next item and call safe_move_with_progress.
LoopBreak ==
    /\ pc = "loop"
    /\ INTERRUPTED \/ k > Len(items_to_delete)
    /\ pc' = "after"
    /\ UNCHANGED <<world, fsys, ids, INTERRUPTED, locals, mv, mvres, report, budget>>

\* A variant that starts the next item without the poll of the flag.
LoopNext_NoPoll(hash) ==
    /\ pc = "loop"
    /\ k <= Len(items_to_delete)
    /\ LET it == items_to_delete[k]
           trash_id == Len(ids) + 1
       IN  /\ ids' = Append(ids, it.item)
           /\ cur' = [item |-> it.item, trash_id |-> trash_id,
                      short_id |-> generate_short_id(hash, it.file_type, existing_short_ids),
                      file_type |-> it.file_type, size_bytes |-> it.size_bytes]
           /\ mv' = [NoMv EXCEPT !.item = it.item, !.tid = trash_id, !.out = FALSE,
                                 !.caller = "delete"]
    /\ k' = k + 1
    /\ mvres' = "none"
    /\ pc' = "mv_start"
    /\ UNCHANGED <<world, fsys, INTERRUPTED, store_locals, paths, force, items_to_delete, skipped,
                   total_required_space, existing_short_ids, moved, failed, rbq,
                   report, budget, all_meta>>

LoopNext(hash) ==
    /\ pc = "loop"
    /\ ~INTERRUPTED
    /\ k <= Len(items_to_delete)
    /\ LET it == items_to_delete[k]
           trash_id == Len(ids) + 1
       IN  /\ ids' = Append(ids, it.item)
           /\ cur' = [item |-> it.item, trash_id |-> trash_id,
                      short_id |-> generate_short_id(hash, it.file_type, existing_short_ids),
                      file_type |-> it.file_type, size_bytes |-> it.size_bytes]
           /\ mv' = [NoMv EXCEPT !.item = it.item, !.tid = trash_id, !.out = FALSE,
                                 !.caller = "delete"]
    /\ k' = k + 1
    /\ mvres' = "none"
    /\ pc' = "mv_start"
    /\ UNCHANGED <<world, fsys, INTERRUPTED, store_locals, paths, force, items_to_delete, skipped,
                   total_required_space, existing_short_ids, moved, failed, rbq,
                   report, budget, all_meta>>

\* ------------------------------------------------ safe_move_with_progress

Src == IF mv.out THEN trash[mv.tid] ELSE orig[mv.item]
Dst == IF mv.out THEN orig[mv.item] ELSE trash[mv.tid]
\* One path inside another: the entry at the inner path is the entry "a" of
\* the directory at the outer path, so a change of entry i at its original
\* path is a change of both.
Nest(o, i) ==
    IF kind[i].within # 0
    THEN [o EXCEPT ![kind[i].within]["a"] = o[i]["r"]]
    ELSE [c \in Items |-> IF kind[c].within = i
                          THEN [o[c] EXCEPT !["r"] = o[i]["a"]]
                          ELSE o[c]]
Put(s, d) ==
    IF mv.out
    THEN /\ orig' = Nest([orig EXCEPT ![mv.item] = d], mv.item)
         /\ trash' = [trash EXCEPT ![mv.tid] = s]
    ELSE /\ orig' = Nest([orig EXCEPT ![mv.item] = s], mv.item)
         /\ trash' = [trash EXCEPT ![mv.tid] = d]

\* The directory an entry is moved back into exists (rename and File::create
\* fail with ENOENT without it).
DstParentThere ==
    IF mv.out /\ kind[mv.item].within # 0
    THEN Exists(orig[kind[mv.item].within])
    ELSE TRUE

\* fs::rename succeeds within one filesystem, onto nothing, onto a non-directory
\* (for a non-directory) or onto an empty directory (for a directory).
RenameOk ==
    /\ ~kind[mv.item].xdev
    /\ DstParentThere
    /\ \/ ~Exists(Dst)
       \/ kind[mv.item].ftype # "Dir"
       \/ ChildrenAt(Dst, "r") = {}

MoveFrame == <<world, metaDir, tmpDir, ids, INTERRUPTED, locals, report, budget>>

\* symlink_metadata(src)? fails when the source does not exist.
MoveNoSource ==
    /\ pc = "mv_start"
    /\ ~Exists(Src)
    /\ mvres' = "err"
    /\ pc' = "mv_ret"
    /\ UNCHANGED <<MoveFrame, orig, trash, mv>>

MoveRename ==
    /\ pc = "mv_start"
    /\ Exists(Src)
    /\ RenameOk
    /\ Put(Absent, Src)
    /\ mvres' = "ok"
    /\ pc' = "mv_ret"
    /\ UNCHANGED <<MoveFrame, mv>>

\* Rename failed, the source is a symlink: symlink(target, dst), remove_file(src).
MoveSymlinkCreate ==
    /\ pc = "mv_start"
    /\ Exists(Src)
    /\ ~RenameOk
    /\ kind[mv.item].ftype = "Symlink"
    /\ IF Exists(Dst)
       THEN /\ mvres' = "err"
            /\ pc' = "mv_ret"
            /\ UNCHANGED <<orig, trash>>
       ELSE /\ Put(Src, [Dst EXCEPT !["r"] = "full"])
            /\ pc' = "mv_link_rm"
            /\ UNCHANGED mvres
    /\ UNCHANGED <<MoveFrame, mv>>

MoveSymlinkRemove ==
    /\ pc = "mv_link_rm"
    /\ Put(Absent, Dst)
    /\ mvres' = "ok"
    /\ pc' = "mv_ret"
    /\ UNCHANGED <<MoveFrame, mv>>

\* A variant that starts the copy strategies without regard to the rename.
MoveFileOpen_NoRename ==
    /\ pc = "mv_start"
    /\ Exists(Src)
    /\ kind[mv.item].ftype = "File"
    /\ DstParentThere
    /\ Put(Src, [Dst EXCEPT !["r"] = "part"])
    /\ mv' = [mv EXCEPT !.off = 0]
    /\ pc' = IF kind[mv.item].size > MmapThreshold THEN "mv_mmap" ELSE "mv_copy"
    /\ UNCHANGED <<MoveFrame, mvres>>

\* Rename failed, the source is a regular file: fast_file_copy.  try_reflink_copy
\* creates (truncates) the destination and its ioctl fails across filesystems.
MoveFileOpen ==
    /\ pc = "mv_start"
    /\ Exists(Src)
    /\ ~RenameOk
    /\ kind[mv.item].ftype = "File"
    /\ DstParentThere
    /\ Put(Src, [Dst EXCEPT !["r"] = "part"])
    /\ mv' = [mv EXCEPT !.off = 0]
    /\ pc' = IF kind[mv.item].size > MmapThreshold THEN "mv_mmap" ELSE "mv_copy"
    /\ UNCHANGED <<MoveFrame, mvres>>

\* try_reflink_copy(src, dst)?: File::open(src) or File::create(dst) fails and
\* fast_file_copy returns the error at once; nothing has been written.
MoveCloneError ==
    /\ pc = "mv_start"
    /\ Exists(Src)
    /\ ~RenameOk
    /\ kind[mv.item].ftype = "File"
    /\ mvres' = "err"
    /\ pc' = "mv_ret"
    /\ UNCHANGED <<MoveFrame, orig, trash, mv>>

\* io::copy of a file of at most 10 MiB: no poll of the flag.
MoveBufferedCopy ==
    /\ pc = "mv_copy"
    /\ Put(Src, [Dst EXCEPT !["r"] = "full"])
    /\ pc' = "mv_file_rm"
    /\ UNCHANGED <<MoveFrame, mv, mvres>>

\* A variant that removes the source when the copy has failed.
MoveCopyError_RemovesSource ==
    /\ pc \in {"mv_copy", "mv_mmap"}
    /\ Put(Absent, Dst)
    /\ mvres' = "err"
    /\ pc' = "mv_ret"
    /\ UNCHANGED <<MoveFrame, mv>>

\* A read or write error in a copy: the error is returned, the partly written
\* destination stays.
MoveCopyError ==
    /\ pc \in {"mv_copy", "mv_mmap"}
    /\ mvres' = "err"
    /\ pc' = "mv_ret"
    /\ UNCHANGED <<MoveFrame, orig, trash, mv>>

\* mmap_copy: one iteration of its loop.
MoveMmapStep ==
    /\ pc = "mv_mmap"
    /\ IF INTERRUPTED
       THEN /\ mvres' = "interrupted"
            /\ pc' = "mv_ret"
            /\ UNCHANGED <<orig, trash, mv>>
       ELSE IF mv.off >= kind[mv.item].size
       THEN /\ pc' = "mv_file_rm"
            /\ UNCHANGED <<orig, trash, mv, mvres>>
       ELSE LET end == IF mv.off + MMAP_CHUNK_SIZE < kind[mv.item].size
                       THEN mv.off + MMAP_CHUNK_SIZE
                       ELSE kind[mv.item].size
            IN  /\ mv' = [mv EXCEPT !.off = end]
                /\ Put(Src, [Dst EXCEPT !["r"] = IF end >= kind[mv.item].size
                                                 THEN "full" ELSE "part"])
                /\ UNCHANGED <<pc, mvres>>
    /\ UNCHANGED MoveFrame

\* fs::remove_file(src) after the copy returned Ok.
MoveFileRemove ==
    /\ pc = "mv_file_rm"
    /\ Put(Absent, Dst)
    /\ mvres' = "ok"
    /\ pc' = "mv_ret"
    /\ UNCHANGED <<MoveFrame, mv>>

\* Rename failed, the source is a directory: move_directory_with_progress.

MoveDirCreate ==
    /\ pc = "mv_start"
    /\ Exists(Src)
    /\ ~RenameOk
    /\ kind[mv.item].ftype = "Dir"
    /\ Put(Src, [Dst EXCEPT !["r"] = "full"])
    /\ mv' = [mv EXCEPT !.stack = <<"r">>]
    /\ pc' = "mv_dir_pop"
    /\ UNCHANGED <<MoveFrame, mvres>>

\* The head of the while loop: pop, check the depth, poll the flag, read_dir.
MoveDirPop ==
    /\ pc = "mv_dir_pop"
    /\ IF mv.stack = <<>>
       THEN /\ mvres' = "ok"
            /\ pc' = "mv_ret"
            /\ UNCHANGED mv
       ELSE LET current == mv.stack[Len(mv.stack)]
            IN  IF Level(mv.item, current) > MAX_RECURSION_DEPTH
                THEN /\ mvres' = "depth"
                     /\ pc' = "mv_ret"
                     /\ UNCHANGED mv
                ELSE IF INTERRUPTED
                THEN /\ mvres' = "interrupted"
                     /\ pc' = "mv_ret"
                     /\ UNCHANGED mv
                ELSE /\ mv' = [mv EXCEPT !.stack = SubSeq(mv.stack, 1, Len(mv.stack) - 1),
                                         !.cur = current,
                                         !.todo = ChildrenAt(Src, current)]
                     /\ pc' = "mv_dir_entry"
                     /\ UNCHANGED mvres
    /\ UNCHANGED <<MoveFrame, orig, trash>>

\* One entry of the directory: a subdirectory is created at the destination and
\* pushed, anything else is moved by safe_move_with_progress.
MoveDirEntry(e) ==
    /\ pc = "mv_dir_entry"
    /\ e \in mv.todo
    /\ IF IsDirNode(mv.item, e)
       THEN /\ Put(Src, [Dst EXCEPT ![e] = "full"])
            /\ mv' = [mv EXCEPT !.stack = Append(mv.stack, e), !.todo = mv.todo \ {e}]
       ELSE /\ Put([Src EXCEPT ![e] = "none"], [Dst EXCEPT ![e] = "full"])
            /\ mv' = [mv EXCEPT !.todo = mv.todo \ {e}]
    /\ UNCHANGED <<MoveFrame, pc, mvres>>

\* The move of an entry fails: the error is returned at once.
MoveDirEntryError(e) ==
    /\ pc = "mv_dir_entry"
    /\ e \in mv.todo
    /\ ~IsDirNode(mv.item, e)
    /\ mvres' = "err"
    /\ pc' = "mv_ret"
    /\ UNCHANGED <<MoveFrame, orig, trash, mv>>

\* A variant that leaves a directory that is not empty and goes on.
MoveDirRemove_KeepsNonEmpty ==
    /\ pc = "mv_dir_entry"
    /\ mv.todo = {}
    /\ IF ChildrenAt(Src, mv.cur) = {}
       THEN Put([Src EXCEPT ![mv.cur] = "none"], Dst)
       ELSE UNCHANGED <<orig, trash>>
    /\ pc' = "mv_dir_pop"
    /\ UNCHANGED <<MoveFrame, mv, mvres>>

\* After the entries: is_dir_empty, then remove_dir or the non-empty error.
MoveDirRemove ==
    /\ pc = "mv_dir_entry"
    /\ mv.todo = {}
    /\ IF ChildrenAt(Src, mv.cur) = {}
       THEN /\ Put([Src EXCEPT ![mv.cur] = "none"], Dst)
            /\ pc' = "mv_dir_pop"
            /\ UNCHANGED mvres
       ELSE /\ mvres' = "nonempty"
            /\ pc' = "mv_ret"
            /\ UNCHANGED <<orig, trash>>
    /\ UNCHANGED <<MoveFrame, mv>>

SafeMove ==
    \/ MoveNoSource
    \/ MoveRename
    \/ MoveSymlinkCreate
    \/ MoveSymlinkRemove
    \/ MoveFileOpen
    \/ MoveCloneError
    \/ MoveBufferedCopy
    \/ MoveCopyError
    \/ MoveMmapStep
    \/ MoveFileRemove
    \/ MoveDirCreate
    \/ MoveDirPop
    \/ \E e \in Nodes : MoveDirEntry(e)
    \/ \E e \in Nodes : MoveDirEntryError(e)
    \/ MoveDirRemove

\* ------------------------------------- handle_delete_batch: after the move

\* The record handle_delete_batch builds for the current item.
file_meta ==
    [state |-> "valid", original_path |-> cur.item, trash_path |-> cur.trash_id,
     file_type |-> cur.file_type, short_id |-> cur.short_id,
     size_bytes |-> cur.size_bytes, delete_time |-> "text"]

\* A variant that goes on to save the record of an item whose move failed.
DeleteMoveFailed_SavesRecord ==
    /\ pc = "mv_ret"
    /\ mv.caller = "delete"
    /\ mvres # "ok"
    /\ pc' = "save_create"
    /\ mv' = NoMv
    /\ UNCHANGED <<world, fsys, ids, INTERRUPTED, locals, mvres, report, budget>>

\* A variant that leaves the loop at the first failed move.
DeleteMoveFailed_Breaks ==
    /\ pc = "mv_ret"
    /\ mv.caller = "delete"
    /\ mvres # "ok"
    /\ failed' = Append(failed, [item |-> cur.item, reason |-> mvres])
    /\ pc' = "after"
    /\ mv' = NoMv
    /\ UNCHANGED <<world, fsys, ids, INTERRUPTED, store_locals, paths, force, k, items_to_delete, skipped,
                   total_required_space, existing_short_ids, moved, cur, mvres, rbq,
                   report, budget, all_meta>>

\* Err(e) of the move: the item is pushed to failed.
DeleteMoveFailed ==
    /\ pc = "mv_ret"
    /\ mv.caller = "delete"
    /\ mvres # "ok"
    /\ failed' = Append(failed, [item |-> cur.item, reason |-> mvres])
    /\ pc' = "loop"
    /\ mv' = NoMv
    /\ UNCHANGED <<world, fsys, ids, INTERRUPTED, store_locals, paths, force, k, items_to_delete, skipped,
                   total_required_space, existing_short_ids, moved, cur, mvres, rbq,
                   report, budget, all_meta>>

SaveFrame == <<world, orig, trash, ids, INTERRUPTED, locals, mv, mvres, report, budget>>

\* Ok(_) of the move: atomic_save_meta is called.
DeleteMoveOk ==
    /\ pc = "mv_ret"
    /\ mv.caller = "delete"
    /\ mvres = "ok"
    /\ pc' = "save_create"
    /\ mv' = NoMv
    /\ UNCHANGED <<world, fsys, ids, INTERRUPTED, locals, mvres, report, budget>>


\* atomic_save_meta: File::create(tmp_path).
SaveCreate ==
    /\ pc = "save_create"
    /\ tmpDir' = [tmpDir EXCEPT ![cur.trash_id] = "empty"]
    /\ pc' = "save_write"
    /\ UNCHANGED <<SaveFrame, metaDir>>

\* A variant that renames the temporary file after its first write.
SaveWrite_RenameEarly ==
    /\ pc = "save_write"
    /\ tmpDir' = [tmpDir EXCEPT ![cur.trash_id] = "partial"]
    /\ pc' = "save_rename"
    /\ UNCHANGED <<SaveFrame, metaDir>>

\* atomic_save_meta: write!(tmp_file, ...), which may take several writes.
SaveWrite ==
    /\ pc = "save_write"
    /\ IF tmpDir[cur.trash_id] = "empty"
       THEN /\ tmpDir' = [tmpDir EXCEPT ![cur.trash_id] = "partial"]
            /\ UNCHANGED pc
       ELSE /\ tmpDir' = [tmpDir EXCEPT ![cur.trash_id] = "complete"]
            /\ pc' = "save_rename"
    /\ UNCHANGED <<SaveFrame, metaDir>>

\* The content a file at the final name gets from the temporary file.
RenamedContent(tmp) == IF tmp = "complete" THEN file_meta ELSE [state |-> "corrupt"]

\* atomic_save_meta: sync_all, drop, fs::rename(tmp_path, final_path).
SaveRename ==
    /\ pc = "save_rename"
    /\ metaDir' = [metaDir EXCEPT ![cur.trash_id] = RenamedContent(tmpDir[cur.trash_id])]
    /\ tmpDir' = [tmpDir EXCEPT ![cur.trash_id] = "none"]
    /\ pc' = "save_ok"
    /\ UNCHANGED SaveFrame

\* atomic_save_meta returns Err: the item is moved back (result ignored).
SaveError ==
    /\ pc \in {"save_create", "save_write", "save_rename"}
    /\ mv' = [NoMv EXCEPT !.item = cur.item, !.tid = cur.trash_id, !.out = TRUE,
                          !.caller = "compensate"]
    /\ mvres' = "none"
    /\ pc' = "mv_start"
    /\ UNCHANGED <<world, fsys, ids, INTERRUPTED, locals, report, budget>>

CompensateDone ==
    /\ pc = "mv_ret"
    /\ mv.caller = "compensate"
    /\ failed' = Append(failed, [item |-> cur.item, reason |-> "Metadata save failed"])
    /\ pc' = "loop"
    /\ mv' = NoMv
    /\ UNCHANGED <<world, fsys, ids, INTERRUPTED, store_locals, paths, force, k, items_to_delete, skipped,
                   total_required_space, existing_short_ids, moved, cur, mvres, rbq,
                   report, budget, all_meta>>

\* moved.push(...) after the record was saved.
RecordMoved ==
    /\ pc = "save_ok"
    /\ moved' = Append(moved, [trash_id |-> cur.trash_id, short_id |-> cur.short_id,
                               item |-> cur.item, size_bytes |-> cur.size_bytes])
    /\ pc' = "loop"
    /\ UNCHANGED <<world, fsys, ids, INTERRUPTED, store_locals, paths, force, k, items_to_delete, skipped,
                   total_required_space, existing_short_ids, failed, cur, mv, mvres, rbq,
                   report, budget, all_meta>>

\* -------------------------------------- handle_delete_batch: after the loop

Reverse(q) == [j \in 1..Len(q) |-> q[Len(q) + 1 - j]]

\* A variant that visits the moved items in the order they completed.
RollbackOrder_Forward(m) == m

\* The order in which the rollback visits the moved items.
RollbackOrder(m) == Reverse(m)

\* A variant that writes the summary without the check of the flag.
AfterLoop_NoCheck ==
    /\ pc = "after"
    /\ report' = [kind |-> "completed", success_count |-> Len(moved),
                  skipped_count |-> Len(skipped), failed_count |-> Len(failed)]
    /\ pc' = "done"
    /\ UNCHANGED <<world, fsys, ids, INTERRUPTED, store_locals, paths, force, k, items_to_delete, skipped,
                   total_required_space, existing_short_ids, moved, failed, cur, mv,
                   mvres, rbq, budget, all_meta>>

\* The check of the flag after the loop: rollback, or the summary.
AfterLoop ==
    /\ pc = "after"
    /\ IF INTERRUPTED
       THEN /\ rbq' = RollbackOrder(moved)
            /\ pc' = "rollback"
            /\ UNCHANGED report
       ELSE /\ report' = [kind |-> "completed", success_count |-> Len(moved),
                          skipped_count |-> Len(skipped), failed_count |-> Len(failed)]
            /\ pc' = "done"
            /\ UNCHANGED rbq
    /\ UNCHANGED <<world, fsys, ids, INTERRUPTED, store_locals, paths, force, k, items_to_delete, skipped,
                   total_required_space, existing_short_ids, moved, failed, cur, mv,
                   mvres, budget, all_meta>>

\* One item of the rollback whose trash_path exists: the move back is called.
RollbackMove ==
    /\ pc = "rollback"
    /\ rbq # <<>>
    /\ TrashPathExists(Head(rbq).trash_id)
    /\ mv' = [NoMv EXCEPT !.item = Head(rbq).item, !.tid = Head(rbq).trash_id,
                          !.out = TRUE, !.caller = "rollback"]
    /\ mvres' = "none"
    /\ pc' = "mv_start"
    /\ UNCHANGED <<world, fsys, ids, INTERRUPTED, locals, report, budget>>

\* One item of the rollback whose trash_path does not exist: nothing is done.
RollbackSkip ==
    /\ pc = "rollback"
    /\ rbq # <<>>
    /\ ~TrashPathExists(Head(rbq).trash_id)
    /\ rbq' = Tail(rbq)
    /\ UNCHANGED <<world, fsys, ids, pc, INTERRUPTED, store_locals, paths, force, k, items_to_delete, skipped,
                   total_required_space, existing_short_ids, moved, failed, cur, mv,
                   mvres, report, budget, all_meta>>

\* remove_meta: the record file is removed (an absent one is no error).
remove_meta(md, name) == [md EXCEPT ![name] = NoMeta]

\* The move back returned (result ignored): remove_meta.
RollbackRemoveMeta ==
    /\ pc = "mv_ret"
    /\ mv.caller = "rollback"
    /\ metaDir' = remove_meta(metaDir, mv.tid)
    /\ rbq' = Tail(rbq)
    /\ mv' = NoMv
    /\ pc' = "rollback"
    /\ UNCHANGED <<world, orig, trash, tmpDir, ids, INTERRUPTED, store_locals, paths, force, k,
                   items_to_delete, skipped, total_required_space, existing_short_ids,
                   moved, failed, cur, mvres, report, budget, all_meta>>

RollbackEnd ==
    /\ pc = "rollback"
    /\ rbq = <<>>
    /\ report' = [kind |-> "rolled_back", rolled_back_count |-> Len(moved)]
    /\ pc' = "done"
    /\ UNCHANGED <<world, fsys, ids, INTERRUPTED, locals, mv, mvres, budget>>

\* --------------------------------------------------------- handle_restore

\* The positions of the commands that install no interrupt handler.
StorePcs == {"res_loop", "res_rm", "cl_loop", "cl_rm"}

\* fs::remove_dir_all(path), its result ignored: a directory goes with all it
\* holds, a symlink is unlinked, a regular file makes it fail and stays.
remove_dir_all(i, c) == IF kind[i].ftype = "File" THEN c ELSE Absent

\* The identifiers a restore can be given: the short id or the trash id of a
\* record of the store, or a name of no record.
NameChoices ==
    {ListedShortId(metaDir, t) : t \in {u \in TrashIds : metaDir[u].state = "valid"}}
    \cup {<<"id", t>> : t \in 1..Len(ids)}
    \cup {<<"nothing">>}
NameSeqs == UNION {[1..n -> NameChoices] : n \in 1..MaxNames}

\* The maps short_id -> trash_id that collecting the enumerated records into a
\* HashMap can give: of two records with one short id, either one is kept.
ShortIdMaps(md, listed) ==
    LET keys == {ListedShortId(md, t) : t \in listed}
    IN  {m \in [keys -> listed] : \A s \in keys : ListedShortId(md, m[s]) = s}

\* The values of restore's force flag worth telling apart: it is read only when
\* a target exists.
RestoreForceChoices == IF \E i \in Items : Exists(orig[i]) THEN BOOLEAN ELSE {FALSE}

\* The command starts: list_all_meta, then the short_id map.
BeginRestore(n, f) ==
    /\ pc = "idle"
    /\ budget.store > 0
    /\ budget' = [budget EXCEPT !.store = budget.store - 1]
    /\ all_meta' = list_all_meta_map(metaDir)
    /\ metaDir' = list_all_meta_dir(metaDir)
    /\ short_id_map' \in ShortIdMaps(metaDir, list_all_meta_map(metaDir))
    /\ names' = n
    /\ force' = f
    /\ restored' = 0
    /\ failed' = <<>>
    /\ k' = 1
    /\ report' = NoReport
    /\ pc' = "res_loop"
    /\ UNCHANGED <<world, orig, trash, tmpDir, ids, INTERRUPTED, paths, items_to_delete,
                   skipped, total_required_space, existing_short_ids, moved, cur, mv,
                   mvres, rbq, todo, cleaned, all, due>>

\* A variant that looks the identifier up among the keys of all_meta first.
ResolveName_TrashIdFirst(name) ==
    IF Len(name) = 2 /\ name[1] = "id" /\ name[2] \in all_meta THEN name[2]
    ELSE IF name \in DOMAIN short_id_map THEN short_id_map[name]
    ELSE 0

\* The trash id an identifier resolves to (0 for none): the short_id map first,
\* then the keys of all_meta.
ResolveName(name) ==
    IF name \in DOMAIN short_id_map THEN short_id_map[name]
    ELSE IF Len(name) = 2 /\ name[1] = "id" /\ name[2] \in all_meta THEN name[2]
    ELSE 0

\* One iteration of the loop over the names, up to the call of the move.
RestoreOutcome(name, confirm) ==
    LET trash_id == ResolveName(name)
    IN  IF trash_id = 0 THEN "not found in trash"
        ELSE IF metaDir[trash_id].state \in {"none", "unreadable"}
        THEN "Failed to read metadata"
        ELSE IF ~Deserializes(metaDir[trash_id]) THEN "Failed to parse metadata"
        ELSE IF ~TrashPathExists(metaDir[trash_id].trash_path) THEN "Trash file missing"
        ELSE IF Exists(orig[metaDir[trash_id].original_path]) /\ ~force /\ ~confirm
        THEN "Skipped"
        ELSE "move"

RestoreName(confirm) ==
    /\ pc = "res_loop"
    /\ k <= Len(names)
    /\ LET name == names[k]
           trash_id == ResolveName(name)
           outcome == RestoreOutcome(name, confirm)
       IN  /\ IF outcome = "move"
              THEN LET meta == metaDir[trash_id]
                   IN  /\ orig' = Nest([orig EXCEPT ![meta.original_path] =
                                          remove_dir_all(meta.original_path, @)],
                                         meta.original_path)
                       /\ cur' = [item |-> meta.original_path, trash_id |-> trash_id]
                       /\ mv' = [NoMv EXCEPT !.item = meta.original_path,
                                             !.tid = meta.trash_path,
                                             !.out = TRUE, !.caller = "restore"]
                       /\ pc' = "mv_start"
                       /\ UNCHANGED <<failed, metaDir>>
              ELSE /\ failed' = IF outcome = "Skipped" THEN failed
                                ELSE Append(failed, [item |-> name, reason |-> outcome])
                   /\ metaDir' = IF outcome = "Trash file missing"
                                 THEN remove_meta(metaDir, trash_id) ELSE metaDir
                   /\ UNCHANGED <<orig, cur, mv, pc>>
    /\ k' = k + 1
    /\ mvres' = "none"
    /\ UNCHANGED <<world, trash, tmpDir, ids, INTERRUPTED, store_locals, paths, force,
                   items_to_delete, skipped, total_required_space, existing_short_ids,
                   moved, rbq, report, budget, all_meta>>

\* A variant that removes the record of the item whose move failed.
RestoreMoveFailed_RemovesRecord ==
    /\ pc = "mv_ret"
    /\ mv.caller = "restore"
    /\ mvres # "ok"
    /\ failed' = Append(failed, [item |-> names[k - 1], reason |-> "Failed to restore"])
    /\ metaDir' = remove_meta(metaDir, cur.trash_id)
    /\ mv' = NoMv
    /\ pc' = "res_loop"
    /\ UNCHANGED <<world, orig, trash, tmpDir, ids, INTERRUPTED, store_locals, paths, force, k,
                   items_to_delete, skipped, total_required_space, existing_short_ids,
                   moved, cur, mvres, rbq, report, budget, all_meta>>

\* is_err() of the move: the name is counted as failed, the record stays.
RestoreMoveFailed ==
    /\ pc = "mv_ret"
    /\ mv.caller = "restore"
    /\ mvres # "ok"
    /\ failed' = Append(failed, [item |-> names[k - 1], reason |-> "Failed to restore"])
    /\ mv' = NoMv
    /\ pc' = "res_loop"
    /\ UNCHANGED <<world, fsys, ids, INTERRUPTED, store_locals, paths, force, k,
                   items_to_delete, skipped, total_required_space, existing_short_ids,
                   moved, cur, mvres, rbq, report, budget, all_meta>>

\* The move returned Ok: set_permissions (its result ignored).
RestoreMoveOk ==
    /\ pc = "mv_ret"
    /\ mv.caller = "restore"
    /\ mvres = "ok"
    /\ mv' = NoMv
    /\ pc' = "res_rm"
    /\ UNCHANGED <<world, fsys, ids, INTERRUPTED, locals, mvres, report, budget>>

\* remove_meta(trash_id), restored += 1.
RestoreRemoveMeta ==
    /\ pc = "res_rm"
    /\ metaDir' = remove_meta(metaDir, cur.trash_id)
    /\ restored' = restored + 1
    /\ pc' = "res_loop"
    /\ UNCHANGED <<world, orig, trash, tmpDir, ids, INTERRUPTED, names, short_id_map, todo,
                   cleaned, all, due, paths, force, k, items_to_delete, skipped,
                   total_required_space, existing_short_ids, moved, failed, cur, mv,
                   mvres, rbq, report, budget, all_meta>>

RestoreEnd ==
    /\ pc = "res_loop"
    /\ k > Len(names)
    /\ report' = [kind |-> "restored", restored |-> restored, failed |-> Len(failed)]
    /\ pc' = "done"
    /\ UNCHANGED <<world, fsys, ids, INTERRUPTED, locals, mv, mvres, budget>>

HandleRestore ==
    \/ \E n \in NameSeqs, f \in RestoreForceChoices : BeginRestore(n, f)
    \/ \E confirm \in BOOLEAN : RestoreName(confirm)
    \/ RestoreMoveFailed
    \/ RestoreMoveOk
    \/ RestoreRemoveMeta
    \/ RestoreEnd

\* ------------------------------------------------ clean_trash, handle_list

\* What parsing a record's delete_time, converting it to the local zone and
\* comparing `now` with delete_time + expire_days can give: now is later than,
\* equal to or earlier than the expiry, or the conversion is not
\* LocalResult::Single (a local time of the hour a clock change repeats or
\* skips) for a record whose expiry, whichever instant is meant, is still
\* ahead of now.
Readings == {"not_single", "past", "exact", "future"}
\* One reading for each record whose delete_time the loop reads.
DueChoices(read) == [read -> Readings]

\* The time of a record as the loops of clean_trash and handle_list read it.
TimeInvalid(t) == metaDir[t].delete_time # "text" \/ due[t] = "not_single"
IsExpired(t) == ~TimeInvalid(t) /\ due[t] = "past"
should_clean(t) == IF all THEN TRUE ELSE IsExpired(t)

\* The command starts: Local::now(), list_all_meta.  With --all no delete_time
\* is read.
BeginClean(a, d) ==
    /\ pc = "idle"
    /\ budget.store > 0
    /\ budget' = [budget EXCEPT !.store = budget.store - 1]
    /\ all_meta' = list_all_meta_map(metaDir)
    /\ metaDir' = list_all_meta_dir(metaDir)
    /\ todo' = list_all_meta_map(metaDir)
    /\ all' = a
    /\ due' = d
    /\ cleaned' = 0
    /\ report' = NoReport
    /\ pc' = "cl_loop"
    /\ UNCHANGED <<world, orig, trash, tmpDir, ids, INTERRUPTED, names, short_id_map,
                   restored, paths, force, k, items_to_delete, skipped,
                   total_required_space, existing_short_ids, moved, failed, cur, mv,
                   mvres, rbq>>

\* One iteration (the map is visited in any order) for a record that is not
\* cleaned: its record is removed when its delete_time cannot be read.
CleanPass(t) ==
    /\ pc = "cl_loop"
    /\ t \in todo
    /\ ~should_clean(t)
    /\ metaDir' = IF TimeInvalid(t) THEN remove_meta(metaDir, t) ELSE metaDir
    /\ todo' = todo \ {t}
    /\ UNCHANGED <<world, orig, trash, tmpDir, ids, pc, INTERRUPTED, names, short_id_map,
                   restored, cleaned, all, due, paths, force, k, items_to_delete, skipped,
                   total_required_space, existing_short_ids, moved, failed, cur, mv,
                   mvres, rbq, report, budget, all_meta>>

\* should_clean: fs::remove_dir_all(trash_path), its result ignored.
CleanRemoveCopy(t) ==
    /\ pc = "cl_loop"
    /\ t \in todo
    /\ should_clean(t)
    /\ trash' = [trash EXCEPT ![metaDir[t].trash_path] =
                    remove_dir_all(metaDir[t].original_path, @)]
    /\ cur' = [item |-> metaDir[t].original_path, trash_id |-> t]
    /\ todo' = todo \ {t}
    /\ pc' = "cl_rm"
    /\ UNCHANGED <<world, orig, metaDir, tmpDir, ids, INTERRUPTED, names, short_id_map,
                   restored, cleaned, all, due, paths, force, k, items_to_delete, skipped,
                   total_required_space, existing_short_ids, moved, failed, mv, mvres,
                   rbq, report, budget, all_meta>>

\* A variant that keeps the record when the quarantined copy is still there.
CleanRemoveMeta_OnlyIfDeleted ==
    /\ pc = "cl_rm"
    /\ metaDir' = IF Exists(trash[metaDir[cur.trash_id].trash_path]) THEN metaDir
                  ELSE remove_meta(metaDir, cur.trash_id)
    /\ cleaned' = cleaned + 1
    /\ pc' = "cl_loop"
    /\ UNCHANGED <<world, orig, trash, tmpDir, ids, INTERRUPTED, names, short_id_map,
                   restored, todo, all, due, paths, force, k, items_to_delete, skipped,
                   total_required_space, existing_short_ids, moved, failed, cur, mv,
                   mvres, rbq, report, budget, all_meta>>

\* remove_meta(trash_id), cleaned += 1.
CleanRemoveMeta ==
    /\ pc = "cl_rm"
    /\ metaDir' = remove_meta(metaDir, cur.trash_id)
    /\ cleaned' = cleaned + 1
    /\ pc' = "cl_loop"
    /\ UNCHANGED <<world, orig, trash, tmpDir, ids, INTERRUPTED, names, short_id_map,
                   restored, todo, all, due, paths, force, k, items_to_delete, skipped,
                   total_required_space, existing_short_ids, moved, failed, cur, mv,
                   mvres, rbq, report, budget, all_meta>>

CleanEnd ==
    /\ pc = "cl_loop"
    /\ todo = {}
    /\ report' = [kind |-> "cleaned", cleaned |-> cleaned]
    /\ pc' = "done"
    /\ UNCHANGED <<world, fsys, ids, INTERRUPTED, locals, mv, mvres, budget>>

CleanTrash ==
    \/ \E a \in BOOLEAN :
         \E d \in DueChoices(IF a THEN {} ELSE list_all_meta_map(metaDir)) : BeginClean(a, d)
    \/ \E t \in TrashIds : CleanPass(t)
    \/ \E t \in TrashIds : CleanRemoveCopy(t)
    \/ CleanRemoveMeta
    \/ CleanEnd

\* handle_list: Local::now(), list_all_meta, then the loop that classifies the
\* records and removes those whose delete_time cannot be read.  expired: the
\* option that restricts the listing to the expired items.
HandleList(d, expired) ==
    /\ pc = "idle"
    /\ budget.store > 0
    /\ budget' = [budget EXCEPT !.store = budget.store - 1]
    /\ all_meta' = list_all_meta_map(metaDir)
    /\ due' = d
    /\ LET listed == list_all_meta_map(metaDir)
           unread == {t \in listed : metaDir[t].delete_time # "text" \/ d[t] = "not_single"}
       IN  /\ metaDir' = [t \in TrashIds |->
                            IF t \in unread THEN NoMeta ELSE list_all_meta_dir(metaDir)[t]]
           /\ report' = [kind |-> "listed", expired |-> expired,
                         active |-> {t \in listed \ unread : ~expired /\ d[t] # "past"},
                         expired_items |-> {t \in listed \ unread : d[t] = "past"}]
    /\ pc' = "done"
    /\ UNCHANGED <<world, orig, trash, tmpDir, ids, INTERRUPTED, names, short_id_map,
                   restored, todo, cleaned, all, paths, force, k, items_to_delete, skipped,
                   total_required_space, existing_short_ids, moved, failed, cur, mv,
                   mvres, rbq>>

\* ------------------------------------------------------------ the process

ResetLocals ==
    /\ paths' = <<>>
    /\ force' = FALSE
    /\ k' = 0
    /\ items_to_delete' = <<>>
    /\ skipped' = <<>>
    /\ total_required_space' = 0
    /\ existing_short_ids' = {}
    /\ moved' = <<>>
    /\ failed' = <<>>
    /\ cur' = NoCur
    /\ rbq' = <<>>
    /\ mv' = NoMv
    /\ mvres' = "none"
    /\ report' = NoReport
    /\ INTERRUPTED' = FALSE
    /\ all_meta' = {}
    /\ names' = <<>>
    /\ short_id_map' = <<>>
    /\ restored' = 0
    /\ todo' = {}
    /\ cleaned' = 0
    /\ all' = FALSE
    /\ due' = <<>>

\* The command returns (or has exited): the process ends.
Return ==
    /\ pc \in {"done", "exit"}
    /\ pc' = "idle"
    /\ ResetLocals
    /\ UNCHANGED <<world, fsys, ids, budget>>

\* SIGINT while handle_delete_batch runs: the handler sets the flag.  The other
\* commands install no handler (SIGINT kills them: Crash).
Interrupt ==
    /\ pc \notin {"idle", "done", "exit", "crashed"} \cup StorePcs
    /\ mv.caller # "restore"
    /\ ~INTERRUPTED
    /\ INTERRUPTED' = TRUE
    /\ UNCHANGED <<world, fsys, ids, pc, locals, mv, mvres, report, budget>>

\* The process is killed at any step: the files stay as they are.
Crash ==
    /\ pc \notin {"idle", "done", "exit", "crashed"}
    /\ pc' = "crashed"
    /\ ResetLocals
    /\ UNCHANGED <<world, fsys, ids, budget>>

DeleteBatch ==
    \/ \E p \in PathSeqs, f \in ForceChoices : BeginDelete(p, f)
    \/ AdmitPath
    \/ AggregateCheck
    \/ EnumerateIds
    \/ LoopBreak
    \/ \E h \in Prefixes : LoopNext(h)
    \/ DeleteMoveFailed
    \/ DeleteMoveOk
    \/ SaveCreate
    \/ SaveWrite
    \/ SaveRename
    \/ SaveError
    \/ CompensateDone
    \/ RecordMoved
    \/ AfterLoop
    \/ RollbackMove
    \/ RollbackSkip
    \/ RollbackRemoveMeta
    \/ RollbackEnd

Next ==
    \/ DeleteBatch
    \/ SafeMove
    \/ HandleRestore
    \/ CleanTrash
    \/ \E d \in DueChoices(list_all_meta_map(metaDir)), e \in BOOLEAN : HandleList(d, e)
    \/ Return
    \/ Interrupt
    \/ Crash

Spec == Init /\ [][Next]_vars

\* ===================================================================== C1
\* An item of the batch is complete at its original path, and the quarantine
\* holds neither an entry nor a record under its trash id.
RolledBack(m) ==
    /\ orig[m.item] = FullEntry(m.item)
    /\ trash[m.trash_id] = Absent
    /\ metaDir[m.trash_id] = NoMeta

\* C1: when handle_delete_batch returns after an interrupted batch that had
\* relocated and recorded k items, each of the k items is back at its exact
\* original path, the quarantine holds no entry and no record of it, and the
\* reported rollback count is k.
C1_RollbackRestoresAll ==
    (pc = "done" /\ report.kind = "rolled_back") =>
        /\ report.rolled_back_count = Len(moved)
        /\ \A j \in 1..Len(moved) : RolledBack(moved[j])

\* ===================================================================== C2
EntryComplete(i) ==
    \/ orig[i] = FullEntry(i)
    \/ \E t \in 1..Len(ids) : ids[t] = i /\ trash[t] = FullEntry(i)

\* C2: in every reachable state (the states a crash or an interrupt leaves
\* included) every user entry is complete at its original path or complete in
\* the quarantine.
C2_NeverAtNeitherPlace == \A i \in Items : EntryComplete(i)

\* ===================================================================== C3
\* C3: when handle_delete_batch returns, every submitted directory is entirely
\* at its original path or entirely in the quarantine.
C3_NoSplitDirectory ==
    pc = "done" =>
        \A j \in 1..Len(paths) :
            kind[paths[j]].ftype = "Dir" =>
                \/ orig[paths[j]] = FullEntry(paths[j])
                \/ /\ orig[paths[j]] = Absent
                   /\ \E t \in 1..Len(ids) :
                        ids[t] = paths[j] /\ trash[t] = FullEntry(paths[j])

\* ------------------------------------------------ list_all_meta on a store

\* What a quarantined entry can be for the enumeration.
StoreKinds ==
    {K("File", FALSE, 4, {"r"}, "none"),
     K("Symlink", FALSE, 1, {"r"}, "abs_same"),
     K("Symlink", FALSE, 1, {"r"}, "abs_other"),
     K("Symlink", FALSE, 1, {"r"}, "rel")}

\* The item quarantined under each trash id of a store.
StoreIds == [t \in TrashIds |-> ((t - 1) % NItems) + 1]

\* The files <t>.meta a metadata directory can hold: none, bytes that are not
\* UTF-8, text that is not a record, a record without the short_id field, or a
\* record (its short_id possibly empty).
RecordShapes ==
    {NoMeta, [state |-> "unreadable"], [state |-> "corrupt"]}
    \cup {[state |-> "no_short_id", trash_path |-> tp] : tp \in TrashIds}
    \cup {[state |-> "valid", trash_path |-> tp, short_id |-> sid] :
            tp \in TrashIds, sid \in {<<>>, <<"f", 1>>}}
StoreRecord(t, shape) ==
    IF shape.state # "valid" THEN shape
    ELSE [state |-> "valid", original_path |-> StoreIds[t], trash_path |-> shape.trash_path,
          file_type |-> kind[StoreIds[t]].ftype, short_id |-> shape.short_id,
          size_bytes |-> kind[StoreIds[t]].size, delete_time |-> "text"]

\* Any store: each quarantined copy present or missing, each record file in any
\* condition.
InitEnum ==
    /\ kind \in [Items -> StoreKinds]
    /\ avail = PlentyAvail
    /\ orig = [i \in Items |-> Absent]
    /\ ids = StoreIds
    /\ trash \in [TrashIds -> {Absent, [n \in Nodes |-> IF n = "r" THEN "full" ELSE "none"]}]
    /\ \E c \in [TrashIds -> RecordShapes] :
            metaDir = [t \in TrashIds |-> StoreRecord(t, c[t])]
    /\ tmpDir = [t \in TrashIds |-> "none"]
    /\ ProcInit
    /\ budget = [delete |-> 0, store |-> 0]
    /\ probe = NoProbe

\* A call of list_all_meta(meta_dir, trash_dir).
ListAllMeta ==
    /\ pc = "idle"
    /\ all_meta' = list_all_meta_map(metaDir)
    /\ metaDir' = list_all_meta_dir(metaDir)
    /\ pc' = "listed"
    /\ UNCHANGED <<world, orig, trash, tmpDir, ids, INTERRUPTED, store_locals, paths, force, k, items_to_delete,
                   skipped, total_required_space, existing_short_ids, moved, failed, cur,
                   mv, mvres, rbq, report, budget>>

NextEnum == ListAllMeta
SpecEnum == InitEnum /\ [][NextEnum]_vars

\* ------------------------------------------------ check_disk_space on inputs

\* A pending call with any required size, any available space, either mode.
InitSpace ==
    /\ kind = [i \in Items |-> AdmissionKinds[1]]
    /\ avail \in 0..MaxAvail
    /\ orig = [i \in Items |-> FullEntry(i)]
    /\ trash = [t \in TrashIds |-> Absent]
    /\ metaDir = [t \in TrashIds |-> NoMeta]
    /\ tmpDir = [t \in TrashIds |-> "none"]
    /\ ids = <<>>
    /\ ProcInit
    /\ budget = [delete |-> 0, store |-> 0]
    /\ \E r \in 0..MaxRequired, s \in BOOLEAN :
            probe = [fn |-> "check_disk_space", required_bytes |-> r,
                     is_single_file |-> s, result |-> "pending"]

\* The call returns.
CheckDiskSpace ==
    /\ probe.fn = "check_disk_space"
    /\ probe.result = "pending"
    /\ probe' = [probe EXCEPT !.result =
                    check_disk_space(avail, probe.required_bytes, probe.is_single_file)]
    /\ UNCHANGED <<kind, avail, fsys, ids, pc, INTERRUPTED, locals, mv, mvres, report, budget>>

NextSpace == CheckDiskSpace
SpecSpace == InitSpace /\ [][NextSpace]_vars

\* ---------------------------------- restore, clean and list on a store

\* What a quarantined entry of a persisted store can be.
PersistedKinds ==
    {K("File", FALSE, 4, {"r"}, "none"),
     K("Symlink", FALSE, 1, {"r"}, "abs_same"),
     K("Symlink", FALSE, 1, {"r"}, "rel"),
     K("Dir", FALSE, 0, {"r", "a"}, "none")}

\* The files <t>.meta of a persisted store: none, unreadable, not a record, or
\* the record the delete wrote for trash_dir/<t> (its short_id possibly
\* missing or spelled like a trash id, its delete_time possibly not in the
\* format clean and list parse).
PersistedShapes ==
    {NoMeta, [state |-> "unreadable"], [state |-> "corrupt"]}
    \cup {[state |-> "valid", short_id |-> <<>>, delete_time |-> "text"],
          [state |-> "valid", short_id |-> <<"f", 1>>, delete_time |-> "text"],
          [state |-> "valid", short_id |-> <<"f", 1>>, delete_time |-> "garbage"],
          [state |-> "valid", short_id |-> <<"id", 1>>, delete_time |-> "text"]}
PersistedRecord(t, shape) ==
    IF shape.state # "valid" THEN shape
    ELSE [state |-> "valid", original_path |-> StoreIds[t], trash_path |-> t,
          file_type |-> kind[StoreIds[t]].ftype, short_id |-> shape.short_id,
          size_bytes |-> kind[StoreIds[t]].size, delete_time |-> shape.delete_time]

\* Any persisted store, and anything or nothing at the original paths: each
\* quarantined copy present or missing, each record file in any condition.
InitStore ==
    /\ kind \in [Items -> PersistedKinds]
    /\ avail = PlentyAvail
    /\ ids = StoreIds
    /\ \E here \in [Items -> BOOLEAN] :
            orig = [i \in Items |-> IF here[i] THEN FullEntry(i) ELSE Absent]
    /\ \E held \in [TrashIds -> BOOLEAN] :
            trash = [t \in TrashIds |-> IF held[t] THEN FullEntry(StoreIds[t]) ELSE Absent]
    /\ \E c \in [TrashIds -> PersistedShapes] :
            metaDir = [t \in TrashIds |-> PersistedRecord(t, c[t])]
    /\ tmpDir = [t \in TrashIds |-> "none"]
    /\ ProcInit
    /\ budget = [delete |-> 0, store |-> MaxStoreCmds]
    /\ probe = NoProbe

StoreNameSeqs == UNION {[1..n -> NameChoices] : n \in 1..MaxStoreNames}

NextStore ==
    \/ \E n \in StoreNameSeqs, f \in RestoreForceChoices : BeginRestore(n, f)
    \/ \E confirm \in BOOLEAN : RestoreName(confirm)
    \/ MoveRename
    \/ RestoreMoveOk
    \/ RestoreRemoveMeta
    \/ RestoreEnd
    \/ CleanTrash
    \/ \E d \in DueChoices(list_all_meta_map(metaDir)), e \in BOOLEAN : HandleList(d, e)
    \/ Return
    \/ Crash
SpecStore == InitStore /\ [][NextStore]_vars

\* ===================================================================== C4
\* C4 as claimed: in no state of a delete (the states a crash leaves included)
\* is there a record at <trash_id>.meta whose quarantined copy is absent.
C4_NoRecordWithoutCopy ==
    \A t \in TrashIds : metaDir[t].state # "none" => Exists(trash[metaDir[t].trash_path])

\* C4 as amended: a record appears only after the relocation of its item has
\* returned success, its copy being at trash_path and its original path
\* vacated; and in a delete the copy of a recorded item leaves the quarantine
\* only in the rollback of an interrupted batch, which moves the copy back
\* before it removes the record.
C4_RecordOnlyAfterRelocation ==
    [][\A t \in TrashIds :
        /\ (metaDir[t].state = "none" /\ metaDir'[t].state # "none") =>
                /\ mvres = "ok"
                /\ metaDir'[t].trash_path = t
                /\ Exists(trash[t])
                /\ ~Exists(orig[metaDir'[t].original_path])
        /\ (/\ pc \notin StorePcs /\ mv.caller # "restore"
            /\ metaDir[t].state # "none" /\ Exists(trash[t]) /\ ~Exists(trash'[t])) =>
                mv.caller = "rollback"]_vars

\* A crash between the relocation and the rename of the record: a quarantined
\* copy with no record.
C4_Witness ==
    /\ pc = "crashed"
    /\ \E t \in TrashIds :
        /\ Exists(trash[t])
        /\ metaDir[t].state = "none"
        /\ tmpDir[t] = "complete"

\* ===================================================================== C5
\* C5: whatever step atomic_save_meta has reached, and wherever the process is
\* killed, the final name <trash_id>.meta does not exist or holds the complete
\* record of the item quarantined under that trash id.
C5_FinalNameNeverPartial ==
    \A t \in TrashIds :
        \/ metaDir[t].state = "none"
        \/ /\ metaDir[t].state = "valid"
           /\ t \in 1..Len(ids)
           /\ metaDir[t].trash_path = t
           /\ metaDir[t].original_path = ids[t]
           /\ metaDir[t].file_type = kind[ids[t]].ftype

\* A crash while the temporary file is partly written.
C5_Witness ==
    /\ pc = "crashed"
    /\ \E t \in TrashIds : tmpDir[t] = "partial" /\ metaDir[t].state = "none"

\* ===================================================================== C6
\* C6: no two live records have the same short_id.
C6_ShortIdsDistinct ==
    \A t1, t2 \in TrashIds :
        (t1 # t2 /\ metaDir[t1].state = "valid" /\ metaDir[t2].state = "valid") =>
            metaDir[t1].short_id # metaDir[t2].short_id

\* ===================================================================== C8
\* C8: a batch whose aggregate space check fails goes from the admission
\* straight to the exit of the process, and no step of the admission, of the
\* check or of the exit changes a user path, the quarantine directory or the
\* metadata directory.
C8_AggregateFailureNoMutation ==
    [][/\ (pc \in {"admit", "exit"} \/ pc' = "exit") => fsys' = fsys
       /\ (pc' = "exit" /\ pc # "exit" /\ report'.kind = "space_error") =>
            /\ pc = "admit"
            /\ check_disk_space(avail, total_required_space, FALSE) # "ok"
            /\ moved = <<>> /\ cur = NoCur
       /\ (pc = "admit" /\ k > Len(paths) /\ pc' # pc
              /\ check_disk_space(avail, total_required_space, FALSE) # "ok") =>
            pc' \in {"exit", "crashed"}]_vars

\* Two accepted files whose cumulative size exceeds the available space: the
\* process has exited and every entry is where it was.
C8_Witness ==
    /\ pc = "exit"
    /\ Len(items_to_delete) = 2
    /\ report = [kind |-> "space_error", error |-> "insufficient"]
    /\ \A j \in 1..2 : orig[items_to_delete[j].item] = FullEntry(items_to_delete[j].item)

\* ===================================================================== C9
AtBoundary(i) == kind[i].ftype = "File" /\ 100 * kind[i].size = MAX_FILE_SPACE_RATIO * avail
OverBoundary(i) ==
    kind[i].ftype = "File" /\ 100 * kind[i].size = MAX_FILE_SPACE_RATIO * avail + 100
InQuarantine(i) == \E t \in 1..Len(ids) : ids[t] = i /\ trash[t] = FullEntry(i)

C9_AdmissionAtBoundary ==
    avail > 0 =>
        \A j \in 1..Len(paths) :
            /\ (AtBoundary(paths[j]) /\ pc = "admit" /\ j < k /\ Exists(orig[paths[j]])) =>
                    \E m \in 1..Len(items_to_delete) : items_to_delete[m].item = paths[j]
            /\ (AtBoundary(paths[j]) /\ Len(paths) = 1) =>
                    /\ pc # "exit"
                    /\ (pc = "done" /\ report.kind = "completed"
                            /\ report.success_count = 1) =>
                        /\ orig[paths[j]] = Absent
                        /\ trash[moved[1].trash_id] = FullEntry(paths[j])
                        /\ metaDir[moved[1].trash_id].state = "valid"
                        /\ metaDir[moved[1].trash_id].original_path = paths[j]
            /\ (OverBoundary(paths[j]) /\ (pc # "admit" \/ j < k)) =>
                    /\ \E m \in 1..Len(skipped) :
                            skipped[m] = [item |-> paths[j], reason |-> "too_large"]
                    /\ \A m \in 1..Len(items_to_delete) : items_to_delete[m].item # paths[j]

TrashEntryPresent(t) == t \in TrashIds /\ Exists(trash[t])

\* C7: when list_all_meta has returned, every record it returned has a
\* trash_path that exists, and no file of the metadata directory is left that
\* cannot be read as a record or whose trash_path does not exist.
C7_EnumerationSelfHeals ==
    pc = "listed" =>
        /\ \A t \in all_meta :
                metaDir[t].state = "valid" /\ TrashEntryPresent(metaDir[t].trash_path)
        /\ \A t \in TrashIds :
                \/ metaDir[t].state = "none"
                \/ metaDir[t].state = "valid" /\ TrashEntryPresent(metaDir[t].trash_path)

\* ==================================================================== C10
Accepts == probe.result = "ok"
Returned == probe.fn = "check_disk_space" /\ probe.result # "pending"

TooDeep(i) == kind[i].ftype = "Dir" /\ "s" \in kind[i].nodes /\ kind[i].levels > MAX_RECURSION_DEPTH

\* C11: when the move of a directory tree with a directory deeper than the
\* limit returns to the delete, it returns the depth-limit error, the source
\* tree is intact and nothing of it is in the quarantine; the move of a tree
\* within the limit does not return the depth-limit error.
C11_DepthLimitBeforeAnyMove ==
    (pc = "mv_ret" /\ mv.caller = "delete" /\ kind[mv.item].ftype = "Dir") =>
        IF TooDeep(mv.item)
        THEN /\ mvres = "depth"
             /\ orig[mv.item] = FullEntry(mv.item)
             /\ trash[mv.tid] = Absent
        ELSE mvres # "depth"

\* ==================================================================== C20
\* C20: when the walker has moved a directory tree within the depth limit from
\* another filesystem into the quarantine, without an interrupt and without an
\* I/O error on any entry, it has returned success, the quarantine holds every
\* entry of the tree and nothing of the tree is left at the source.
C20_RecursiveMoveSucceeds ==
    (/\ pc = "mv_ret" /\ mv.caller = "delete"
     /\ kind[mv.item].ftype = "Dir" /\ kind[mv.item].xdev
     /\ kind[mv.item].levels <= MAX_RECURSION_DEPTH
     /\ mvres \notin {"interrupted", "err"}) =>
        /\ mvres = "ok"
        /\ trash[mv.tid] = FullEntry(mv.item)
        /\ orig[mv.item] = Absent

\* ==================================================================== C16
\* a is b with some elements left out, the order kept.
IsOrderedPart(a, b) ==
    \E f \in [1..Len(a) -> 1..Len(b)] :
        /\ \A x, y \in 1..Len(a) : x < y => f[x] < f[y]
        /\ \A x \in 1..Len(a) : a[x] = b[f[x]]
ItemsOf(q) == [j \in 1..Len(q) |-> q[j].item]

\* The state part of C16: the accepted items are in the order of the paths, the
\* completed items in the order of the accepted items, and the item the
\* rollback is at is the latest completed item not yet visited.
C16_OrderKept ==
    /\ IsOrderedPart(ItemsOf(items_to_delete), paths)
    /\ IsOrderedPart(ItemsOf(moved), ItemsOf(items_to_delete))
    /\ rbq # <<>> => Head(rbq) = moved[Len(rbq)]

\* C16: relocations are attempted in the order of the supplied paths (each
\* attempt takes the next accepted item), and every step of the rollback
\* handles the latest completed item not yet handled.
C16_BatchAndRollbackOrder ==
    /\ []C16_OrderKept
    /\ [][/\ (mv'.caller = "delete" /\ mv.caller # "delete") =>
                /\ k' = k + 1
                /\ mv'.item = items_to_delete[k].item
          /\ (mv'.caller = "rollback" /\ mv.caller # "rollback") =>
                /\ mv'.item = moved[Len(rbq)].item
                /\ mv'.tid = moved[Len(rbq)].trash_id
          /\ (pc = "rollback" /\ pc' = "rollback" /\ rbq' # rbq) =>
                Len(rbq') = Len(rbq) - 1]_vars

\* A rollback of two different completed items that has handled the second
\* and is at the first.
C16_Witness ==
    /\ pc = "rollback"
    /\ Len(moved) = 2
    /\ moved[1].item # moved[2].item
    /\ paths = <<moved[1].item, moved[2].item>>
    /\ Len(rbq) = 1
    /\ rbq[1] = moved[1]

\* ==================================================================== C19
\* The size the admission computes for an entry that is at its original path.
EntrySize(i) ==
    IF kind[i].ftype = "Dir" THEN calculate_dir_stats(FullEntry(i)) ELSE kind[i].size

\* C19: an item of any type whose size exceeds 80% of the available space of
\* the quarantine filesystem is never relocated: it stays complete at its
\* original path and no trash id is allocated for it.
C19_GuardForEveryType ==
    \A i \in Items :
        100 * EntrySize(i) > MAX_FILE_SPACE_RATIO * avail =>
            /\ orig[i] = FullEntry(i)
            /\ \A t \in 1..Len(ids) : ids[t] # i

\* ==================================================================== C17
PolicyViolation(i) == kind[i].policy # "none"
Processed(i) ==
    \/ \E m \in 1..Len(items_to_delete) : items_to_delete[m].item = i
    \/ \E m \in 1..Len(skipped) : skipped[m].item = i

\* C17: when a delete batch without force ends, every path with a policy
\* violation has been reported (as skipped, or by the traversal error) and is
\* where it was, and every other path of the batch has been processed.
C17_PolicyViolationNotFatal ==
    (pc \in {"done", "exit"} /\ ~force /\ \E j \in 1..Len(paths) : PolicyViolation(paths[j])) =>
        \A j \in 1..Len(paths) :
            IF PolicyViolation(paths[j])
            THEN /\ \/ \E m \in 1..Len(skipped) : skipped[m].item = paths[j]
                    \/ report.kind = "traversal_error"
                 /\ orig[paths[j]] = FullEntry(paths[j])
            ELSE Processed(paths[j])

\* ==================================================================== C18
\* C18: while a delete without force runs, every entry located under a
\* protected prefix (whatever its type) and every entry named by a
\* traversal-looking path is complete at its original path, and no trash id is
\* allocated for it.
C18_ProtectedNeverRelocated ==
    (pc \notin {"idle", "crashed"} /\ ~force) =>
        \A i \in Items :
            kind[i].policy \in {"protected", "traversal"} =>
                /\ orig[i] = FullEntry(i)
                /\ \A t \in 1..Len(ids) : ids[t] # i

\* ==================================================================== C12
\* A delete succeeded for the entry quarantined under t: the entry is whole in
\* the quarantine, its record is in the store, nothing is at its original path.
Quarantined(t) ==
    /\ t \in 1..Len(ids)
    /\ metaDir[t].state = "valid"
    /\ metaDir[t].original_path = ids[t]
    /\ metaDir[t].trash_path = t
    /\ trash[t] = FullEntry(ids[t])
    /\ orig[ids[t]] = Absent

\* The restore that starts is given the short_id of the record of t.
RestoreStartsFor(t) ==
    /\ pc = "idle"
    /\ pc' = "res_loop"
    /\ \E j \in 1..Len(names') : names'[j] = ListedShortId(metaDir, t)

\* C12: a restore by short_id that follows a successful delete is a round trip:
\* the restore finds the record of the quarantined entry, and when it has dealt
\* with it the entry is at its original path, the copy is no longer in the
\* quarantine and the record is deleted.
C12_DeleteRestoreRoundTrip ==
    [][/\ \A t \in TrashIds :
            (Quarantined(t) /\ RestoreStartsFor(t)) =>
                /\ t \in all_meta'
                /\ metaDir'[t] = metaDir[t]
                /\ short_id_map'[ListedShortId(metaDir, t)] = t
       /\ (pc = "res_rm" /\ pc' = "res_loop") =>
                /\ Exists(orig'[cur.item])
                /\ trash'[cur.trash_id] = Absent
                /\ metaDir'[cur.trash_id] = NoMeta]_vars

\* ==================================================================== C13
\* The identifiers a record can be named by.
Identifiers ==
    {<<"id", t>> : t \in TrashIds}
    \cup {<<p, h>> : p \in {"f", "d", "l"}, h \in Prefixes}

\* The store holds the record of t, the quarantined file it names is missing,
\* and n identifies this record and no other.
MissingCopyNamed(t, n) ==
    /\ metaDir[t].state = "valid"
    /\ trash[metaDir[t].trash_path] = Absent
    /\ n \in {ListedShortId(metaDir, t), <<"id", t>>}
    /\ \A u \in TrashIds \ {t} :
            metaDir[u].state = "valid" => n \notin {ListedShortId(metaDir, u), <<"id", u>>}

\* C13: a restore given an identifier of a persisted record whose quarantined
\* file is missing reports "Trash file missing" for that identifier, and the
\* iteration that reports it removes the record from the metadata directory.
C13_MissingCopyReported ==
    [][/\ \A t \in TrashIds, n \in Identifiers :
            (pc = "idle" /\ pc' = "res_loop" /\ names' = <<n>> /\ MissingCopyNamed(t, n)) =>
                (RestoreOutcome(n, FALSE))' = "Trash file missing"
       /\ \A t \in TrashIds :
            (/\ pc = "res_loop" /\ k <= Len(names) /\ k' = k + 1
             /\ ResolveName(names[k]) = t
             /\ RestoreOutcome(names[k], FALSE) = "Trash file missing") =>
                metaDir'[t] = NoMeta]_vars

\* ==================================================================== C14
\* clean_trash enumerated the record of t, and now <= delete_time + expire_days.
EnumeratedUnexpired(t) ==
    /\ t \in all_meta
    /\ t \in DOMAIN due
    /\ metaDir[t].state = "valid"
    /\ metaDir[t].delete_time = "text"
    /\ due[t] # "past"

CleanReturned == pc = "done" /\ report.kind = "cleaned"

\* C14: when clean_trash returns, with all=true no enumerated record is left,
\* with all=false no enumerated record whose expiry is strictly earlier than
\* now is left; and no step of clean_trash with all=false changes a record
\* with now <= delete_time + expire_days or its quarantined copy.
C14_CleanRemovesExpiredOnly ==
    /\ [](CleanReturned =>
            \A t \in all_meta :
                (all \/ (metaDir[t].state = "valid" /\ due[t] = "past")) =>
                    metaDir[t] = NoMeta)
    /\ [][\A t \in TrashIds :
            (pc \in {"cl_loop", "cl_rm"} /\ ~all /\ EnumeratedUnexpired(t)) =>
                /\ metaDir'[t] = metaDir[t]
                /\ trash'[t] = trash[t]]_vars

\* ==================================================================== C15
\* This step removes the record of t from the store.
RecordRemoved(t) == metaDir[t].state = "valid" /\ metaDir'[t] = NoMeta

\* C15: a record is removed exactly when its quarantined copy has left the
\* quarantine: no step removes a record while the copy it names is still in
\* the quarantine, and no operation ends with a record whose copy it removed.
C15_RecordRemovedWithCopy ==
    /\ [](pc \in {"idle", "done"} =>
            \A t \in TrashIds :
                metaDir[t].state = "valid" => Exists(trash[metaDir[t].trash_path]))
    /\ [][\A t \in TrashIds :
            RecordRemoved(t) => ~Exists(trash'[metaDir[t].trash_path])]_vars

\* ==================================================================== C21
\* This step returns an error from the relocation of a regular file whose
\* source exists.
FileMoveFails ==
    /\ mvres # "err"
    /\ mvres' = "err"
    /\ kind[mv.item].ftype = "File"
    /\ Exists(Src)

\* A step of the engine that leaves the head of safe_move_with_progress.
LeavesMoveStart == pc = "mv_start" /\ pc' \notin {"mv_start", "crashed"}

PollSeesFlag ==
    /\ INTERRUPTED
    /\ mv.caller = "delete"
    /\ \/ pc = "mv_mmap"
       \/ /\ pc = "mv_dir_pop"
          /\ mv.stack # <<>>
          /\ Level(mv.item, mv.stack[Len(mv.stack)]) <= MAX_RECURSION_DEPTH

\* No record under any trash id allocated to item i.
NoRecordOf(i) == \A t \in 1..Len(ids) : ids[t] = i => metaDir[t] = NoMeta

\* C22: when the poll of the copy loop or of the walker sees the flag, the
\* relocation returns the interrupted error (unless an I/O error ends it);
\* the delete counts the item as failed without touching the store, and no
\* record exists for an item that failed by interruption.
C22_InterruptedNeverRecorded ==
    /\ [](\A j \in 1..Len(failed) :
            failed[j].reason = "interrupted" => NoRecordOf(failed[j].item))
    /\ [][/\ (PollSeesFlag /\ pc' \notin {pc, "crashed"} /\ mvres' # "err") =>
                (mvres' = "interrupted" /\ pc' = "mv_ret")
          /\ (/\ pc = "mv_ret" /\ mv.caller = "delete" /\ mvres = "interrupted"
              /\ pc' # "crashed" /\ pc' # pc) =>
                /\ pc' = "loop"
                /\ failed' = Append(failed, [item |-> cur.item, reason |-> "interrupted"])
                /\ metaDir' = metaDir
                /\ tmpDir' = tmpDir]_vars

\* A delete that returned after one of its relocations was interrupted.
C22_Witness ==
    /\ pc = "done"
    /\ \E j \in 1..Len(failed) : failed[j].reason = "interrupted"

\* ==================================================================== C23
\* The enumerated records still in the store that n names by short_id.
HoldersOf(n) ==
    {t \in all_meta : metaDir[t].state = "valid" /\ ListedShortId(metaDir, t) = n}

\* n is the short_id of no enumerated record and the trash_id of none.
UnknownName(n) ==
    /\ n \notin DOMAIN short_id_map
    /\ \A t \in all_meta : n # <<"id", t>>

\* An iteration of the loop of handle_restore over the names.
RestoreIteration == pc = "res_loop" /\ k <= Len(names) /\ k' = k + 1

\* C23: the record an iteration of restore moves is one that has the
\* identifier as its short_id when there is such a record, and the record
\* with that trash_id only when there is none; an identifier that matches
\* neither is counted as failed with "not found in trash", nothing of the
\* store or of the quarantine changes, and the loop goes on to the next
\* identifier.
C23_ResolutionAndNotFound ==
    [][RestoreIteration =>
        /\ (pc' = "mv_start" /\ HoldersOf(names[k]) # {}) =>
                cur'.trash_id \in HoldersOf(names[k])
        /\ (pc' = "mv_start" /\ HoldersOf(names[k]) = {}) =>
                names[k] = <<"id", cur'.trash_id>>
        /\ UnknownName(names[k]) =>
                /\ failed' = Append(failed, [item |-> names[k],
                                             reason |-> "not found in trash"])
                /\ pc' = "res_loop"
                /\ UNCHANGED <<fsys, restored>>]_vars

\* A restore of two identifiers returned: the first was unknown, the second
\* was restored.
C23_Witness ==
    /\ pc = "done"
    /\ report.kind = "restored"
    /\ Len(names) = 2
    /\ names[1] = <<"nothing">>
    /\ failed = <<[item |-> <<"nothing">>, reason |-> "not found in trash"]>>
    /\ restored = 1

\* ==================================================================== C24
\* The persisted record of t has no short_id (the field is absent, or empty),
\* and the quarantined copy it names is valid.
ShortIdMissing(t) ==
    /\ \/ metaDir[t].state = "no_short_id"
       \/ metaDir[t].state = "valid" /\ metaDir[t].short_id = <<>>
    /\ TrashPathExists(metaDir[t].trash_path)
    /\ same_filesystem_trash(metaDir[t].trash_path)

\* C24: list_all_meta returns every persisted record whose short_id is missing
\* and whose quarantined copy is valid, its short_id set to the trash_id.
C24_MissingShortIdBackfilled ==
    [][(pc = "idle" /\ pc' = "listed") =>
        \A t \in TrashIds :
            ShortIdMissing(t) =>
                /\ t \in all_meta'
                /\ metaDir'[t].state \in {"valid", "no_short_id"}
                /\ ListedShortId(metaDir', t) = <<"id", t>>]_vars

\* ==================================================================== C25
\* The loop of clean_trash is at the removal of the record of a selected item:
\* remove_dir_all has run on its copy (a regular file is what it leaves).
DeletionAttempted ==
    LET tp == metaDir[cur.trash_id].trash_path
    IN  \/ trash[tp] = Absent
        \/ kind[cur.item].ftype = "File"

\* C25: clean_trash removes the record of a selected item only after it has
\* attempted the deletion of the quarantined copy, it removes the record
\* whether or not the copy is gone, and when it returns no selected record is
\* left in the store.
C25_CleanDeletesCopyThenRecord ==
    /\ [](/\ pc = "cl_rm" => (metaDir[cur.trash_id].state = "valid" /\ DeletionAttempted)
          /\ CleanReturned =>
                \A t \in all_meta : metaDir[t].state = "valid" => ~should_clean(t))
    /\ [][/\ \A t \in all_meta :
                (pc = "cl_loop" /\ metaDir[t].state = "valid" /\ should_clean(t)) =>
                    metaDir'[t] = metaDir[t]
          /\ (pc = "cl_rm" /\ pc' = "cl_loop") => metaDir'[cur.trash_id] = NoMeta]_vars

\* clean_trash returned: the copy of a selected regular file is still in the
\* quarantine, its record is gone.
C25_Witness ==
    /\ CleanReturned
    /\ cleaned > 0
    /\ \E t \in all_meta :
        /\ kind[ids[t]].ftype = "File"
        /\ Exists(trash[t])
        /\ metaDir[t] = NoMeta
        /\ (all \/ due[t] = "past")

\* ------------------------------------------------------------------- C26

\* The rollback of an interrupted delete is running.
RollingBack == pc = "rollback" \/ mv.caller = "rollback"
\* The rollback has not finished with the moved item m.
Pending(m) == \E q \in 1..Len(rbq) : rbq[q] = m
\* moved[x] is an entry inside the directory moved[y], and was moved first.
ChildBeforeAncestor(x, y) ==
    /\ x \in 1..Len(moved)
    /\ y \in 1..Len(moved)
    /\ x < y
    /\ kind[moved[x].item].within = moved[y].item
\* The move back of the moved item m is under way.
MovingBack(m) == mv.caller = "rollback" /\ mv.tid = m.trash_id

\* C26 (as stated): when an entry inside a directory was moved as its own item
\* before the directory, the rollback has finished with the child entry when it
\* moves the directory back.
C26_ChildRestoredFirst ==
    \A x, y \in 1..MaxIds :
        (RollingBack /\ ChildBeforeAncestor(x, y) /\ MovingBack(moved[y])) =>
            ~Pending(moved[x])

\* C26: when an entry inside a directory was moved as its own item before the
\* directory, the rollback has finished with the directory when it moves the
\* child entry back, and the directory is at its original path again when that
\* move starts.
C26_AncestorRestoredFirst ==
    \A x, y \in 1..MaxIds :
        (RollingBack /\ ChildBeforeAncestor(x, y) /\ MovingBack(moved[x])) =>
            /\ ~Pending(moved[y])
            /\ pc = "mv_start" => Exists(orig[moved[y].item])

\* The rollback has moved the directory back and then the entry inside it:
\* both are at their original paths, complete.
C26_Witness ==
    /\ ChildBeforeAncestor(1, 2)
    /\ MovingBack(moved[1])
    /\ pc = "mv_ret"
    /\ mvres = "ok"
    /\ \A i \in {moved[1].item, moved[2].item} : orig[i] = FullEntry(i)

\* ------------------------------------------------------------------- C27

\* This step is a listing without the restriction to the expired items.
ListsAll == pc = "idle" /\ report'.kind = "listed" /\ ~report'.expired

\* C27: a listing puts every enumerated record whose delete_time parses into
\* exactly one of the two partitions, into the active one iff now is at most
\* its expiry, into the expired one iff now is later than its expiry, which is
\* when a default clean at the same instant selects it.
C27_ListPartitions ==
    [][ListsAll =>
        \A t \in all_meta' :
            metaDir[t].delete_time = "text" =>
                /\ (t \in report'.active) # (t \in report'.expired_items)
                /\ t \in report'.expired_items <=> due'[t] = "past"
                /\ t \in report'.expired_items <=>
                        (~all' /\ metaDir'[t] # NoMeta /\ should_clean(t)')]_vars

\* ------------------------------------------------------------------- C28

\* The removal of the directory the walker is at is due: its entries have been
\* gone through.
RemovalDue == pc = "mv_dir_entry" /\ mv.todo = {}
\* This step is a step of the walker (not the signal, not a crash).
WalkerStep == pc' \in {"mv_dir_pop", "mv_ret"}

\* C28: the walker returns Ok only when nothing of the source tree is left; it
\* removes a source directory only when the directory is empty, and when the
\* removal of a directory that still has an entry is due it returns the
\* non-empty-directory error.
C28_NoSuccessWithSourceLeft ==
    [][/\ (pc = "mv_dir_pop" /\ pc' = "mv_ret" /\ mvres' = "ok") => Src = Absent
       /\ (RemovalDue /\ WalkerStep /\ ChildrenAt(Src, mv.cur) = {}) =>
            /\ pc' = "mv_dir_pop"
            /\ Src' = [Src EXCEPT ![mv.cur] = "none"]
       /\ (RemovalDue /\ WalkerStep /\ ChildrenAt(Src, mv.cur) # {}) =>
            /\ pc' = "mv_ret"
            /\ mvres' = "nonempty"
            /\ Src' = Src]_vars

\* The walker has returned Ok for a directory with an entry: the tree is at the
\* destination and nothing of it is left at the source.
C28_Witness ==
    /\ pc = "mv_ret"
    /\ mvres = "ok"
    /\ kind[mv.item].ftype = "Dir"
    /\ kind[mv.item].xdev
    /\ Src = Absent
    /\ Dst = FullEntry(mv.item)
    /\ ChildrenAt(Dst, "r") # {}

\* ------------------------------------------------------------------- C29

\* The move of a regular file is in its copy strategies.
InFileCopy ==
    \/ pc \in {"mv_copy", "mv_mmap", "mv_file_rm"}
    \/ pc = "mv_start" /\ Exists(Src) /\ kind[mv.item].ftype = "File" /\ ~RenameOk

\* This step does not leave the move (a crash does).
StaysInMove == pc' \in {"mv_copy", "mv_mmap", "mv_file_rm", "mv_ret"}

\* C29: while a regular file is moved by a copy strategy the source changes in
\* one step only, its removal after the copy returned success with the
\* destination complete; a copy that returns an error or the interruption
\* leaves the source present and as it was.
C29_SourceRemovedAfterCopy ==
    /\ [](pc = "mv_file_rm" => (Exists(Src) /\ Dst["r"] = "full"))
    /\ [][/\ (InFileCopy /\ StaysInMove /\ Src' # Src) =>
                (pc = "mv_file_rm" /\ mvres' = "ok" /\ Src' = Absent)
          /\ (InFileCopy /\ pc' = "mv_ret" /\ mvres' \in {"err", "interrupted"}) =>
                (Exists(Src') /\ Src' = Src)]_vars

\* An interrupted copy has returned: the destination is partly written, the
\* source is complete.
C29_Witness ==
    /\ pc = "mv_ret"
    /\ mvres = "interrupted"
    /\ kind[mv.item].ftype = "File"
    /\ Src = FullEntry(mv.item)
    /\ Dst["r"] = "part"

\* ------------------------------------------------------------------- C30

\* Pairs of entries of which a delete takes every path of the relocation and
\* of the rollback.
FairKinds ==
    {<<K("File", TRUE, 5, {"r"}, "none"), K("Dir", TRUE, 0, {"r", "a"}, "none")>>,
     <<K("Symlink", FALSE, 1, {"r"}, "rel"), K("Symlink", TRUE, 1, {"r"}, "abs_same")>>,
     <<K("File", FALSE, 4, {"r"}, "none"), K("File", TRUE, 4, {"r"}, "none")>>}

\* One delete command, nothing in the quarantine.
InitFair ==
    /\ \E q \in FairKinds : kind = [i \in Items |-> IF i = 1 THEN q[1] ELSE q[2]]
    /\ avail = PlentyAvail
    /\ orig = [i \in Items |-> FullEntry(i)]
    /\ trash = [t \in TrashIds |-> Absent]
    /\ metaDir = [t \in TrashIds |-> NoMeta]
    /\ tmpDir = [t \in TrashIds |-> "none"]
    /\ ids = <<>>
    /\ ProcInit
    /\ budget = [delete |-> MaxCmds, store |-> 0]
    /\ probe = NoProbe

\* The steps of the process of a delete command, and the signal.
NextFair ==
    \/ DeleteBatch
    \/ SafeMove
    \/ Return
    \/ Interrupt

\* The process is not killed and keeps being scheduled: a step of the command
\* that stays possible is taken.
SpecFair == InitFair /\ [][NextFair]_vars /\ WF_vars(DeleteBatch \/ SafeMove)

\* A delete command is running.
InDelete == pc \notin {"idle", "done", "exit", "crashed"}
\* The command has returned, and the rollback has gone through every item the
\* batch had completed.
TerminatedRolledBack ==
    /\ pc \in {"done", "exit"}
    /\ rbq = <<>>
    /\ moved # <<>> =>
        (report.kind = "rolled_back" /\ report.rolled_back_count = Len(moved))

\* C30: with the flag set the loop of a delete starts the move of no further
\* item; the rollback is entered with every completed item queued and takes an
\* item off the queue only when it has called the move back for it or found
\* its trash_path missing; and a delete command whose flag is set eventually
\* returns, the rollback having gone through every completed item.
C30_StopsAndRollsBack ==
    /\ [][/\ INTERRUPTED => ~(pc = "loop" /\ pc' = "mv_start")
          /\ (pc = "after" /\ pc' = "rollback") =>
                \A j \in 1..Len(moved) : \E q \in 1..Len(rbq') : rbq'[q] = moved[j]
          /\ (rbq # <<>> /\ rbq' # rbq) =>
                /\ rbq' = Tail(rbq)
                /\ \/ pc = "mv_ret" /\ mv.caller = "rollback"
                         /\ mv.tid = Head(rbq).trash_id
                   \/ pc = "rollback" /\ ~TrashPathExists(Head(rbq).trash_id)]_vars
    /\ (INTERRUPTED /\ InDelete) ~> TerminatedRolledBack

\* The rollback of an interrupted batch has ended: the first of two items had
\* been completed, the loop stopped before the second.
C30_Witness ==
    /\ INTERRUPTED
    /\ TerminatedRolledBack
    /\ Len(moved) = 1
    /\ Len(items_to_delete) = 2
    /\ k = 2

\* ------------------------------------------------------------------- C31

\* The delete has returned with its summary (no traversal error, no space
\* error, no interruption).
Completed == pc = "done" /\ report.kind = "completed"
\* This step is a step of the command (not the signal, not a crash).
CommandStep == pc' \notin {pc, "crashed"}
\* The move of the current item of the loop has returned an error.
ItemMoveFailed == pc = "mv_ret" /\ mv.caller = "delete" /\ mvres # "ok"

\* C31: when a delete returns with its summary, the three counts are the
\* lengths of the lists of succeeded, skipped and failed paths and add up to
\* the number of input paths; at the head of the loop every item already
\* attempted is in exactly one of moved and failed; a failed move adds the item
\* to failed and returns to the head of the loop, which then attempts the next
\* item.
C31_EveryPathOneOutcome ==
    /\ [](/\ Completed =>
                /\ report.success_count = Len(moved)
                /\ report.skipped_count = Len(skipped)
                /\ report.failed_count = Len(failed)
                /\ Len(moved) + Len(skipped) + Len(failed) = Len(paths)
          /\ pc = "loop" =>
                /\ Len(moved) + Len(failed) = k - 1
                /\ Len(skipped) + Len(items_to_delete) = Len(paths))
    /\ [][/\ (ItemMoveFailed /\ CommandStep) =>
                /\ pc' = "loop"
                /\ failed' = Append(failed, [item |-> cur.item, reason |-> mvres])
                /\ moved' = moved
                /\ k' = k
          /\ (pc = "loop" /\ ~INTERRUPTED /\ k <= Len(items_to_delete) /\ CommandStep) =>
                /\ pc' = "mv_start"
                /\ mv'.item = items_to_delete[k].item]_vars

\* A batch of two paths has returned: the move of the first failed, the second
\* was quarantined.
C31_Witness ==
    /\ Completed
    /\ Len(paths) = 2
    /\ Len(failed) = 1
    /\ failed[1].item = paths[1]
    /\ failed[1].reason = "err"
    /\ Len(moved) = 1
    /\ moved[1].item = paths[2]

\* ------------------------------------------------------------------- C32

\* This step ends the compensation of a failed metadata save.
CompensationEnds == pc = "mv_ret" /\ mv.caller = "compensate" /\ pc' = "loop"

\* C32: when the compensation of a failed metadata save ends, the item is back
\* at its original path and gone from the quarantine, it is pushed to failed
\* and not to moved, and no record of it is in the store.
C32_FailedSaveCompensated ==
    [][CompensationEnds =>
        /\ orig[cur.item]["r"] = "full"
        /\ trash[cur.trash_id] = Absent
        /\ metaDir'[cur.trash_id] = NoMeta
        /\ failed' = Append(failed, [item |-> cur.item, reason |-> "Metadata save failed"])
        /\ moved' = moved
        /\ \A j \in 1..Len(moved) : moved[j].trash_id # cur.trash_id]_vars

\* ------------------------------------------------------------------- C33

\* The completed item m is in the quarantine with its record.
QuarantinedWithRecord(m) ==
    /\ trash[m.trash_id]["r"] = "full"
    /\ metaDir[m.trash_id].state = "valid"
    /\ metaDir[m.trash_id].original_path = m.item
    /\ metaDir[m.trash_id].trash_path = m.trash_id

\* C33: the step after the item loop goes by the flag alone: unset, the
\* summary is written, nothing is queued for the rollback and no file changes;
\* set, every completed item is queued for the rollback and no summary is
\* written.  A delete that has returned with its summary has every completed
\* item in the quarantine with its record, and a delete in its rollback has
\* written no summary.
C33_OutcomeByFlagAfterLoop ==
    /\ [][(pc = "after" /\ CommandStep) =>
            IF INTERRUPTED
            THEN /\ pc' = "rollback"
                 /\ \A j \in 1..Len(moved) : \E q \in 1..Len(rbq') : rbq'[q] = moved[j]
                 /\ report' = report
            ELSE /\ pc' = "done"
                 /\ report'.kind = "completed"
                 /\ rbq' = <<>>
                 /\ <<orig, trash, metaDir>>' = <<orig, trash, metaDir>>]_vars
    /\ [](/\ Completed => (rbq = <<>> /\ \A j \in 1..Len(moved) : QuarantinedWithRecord(moved[j]))
          /\ RollingBack => (INTERRUPTED /\ report.kind # "completed")
          /\ (pc = "done" /\ report.kind = "rolled_back") => INTERRUPTED)

\* The loop went through both items of a batch, both were completed, and the
\* delete has returned from the rollback.
C33_Witness ==
    /\ pc = "done"
    /\ report.kind = "rolled_back"
    /\ Len(items_to_delete) = 2
    /\ k > Len(items_to_delete)
    /\ Len(moved) = 2

\* ------------------------------------------------------------------- C34

\* Quarantined entries whose move back takes each strategy.
RestoreKinds ==
    {K("File", FALSE, 4, {"r"}, "none"),
     K("File", TRUE, 4, {"r"}, "none"),
     K("File", TRUE, 5, {"r"}, "none"),
     K("Symlink", TRUE, 1, {"r"}, "abs_same"),
     K("Dir", TRUE, 0, {"r", "a"}, "none")}

\* A store with a complete copy and a record (its short_id empty) of every
\* item, and anything or nothing at the original paths.
InitRestore ==
    /\ kind \in [Items -> RestoreKinds]
    /\ avail = PlentyAvail
    /\ ids = StoreIds
    /\ \E here \in [Items -> BOOLEAN] :
            orig = [i \in Items |-> IF here[i] THEN FullEntry(i) ELSE Absent]
    /\ trash = [t \in TrashIds |-> FullEntry(StoreIds[t])]
    /\ metaDir = [t \in TrashIds |->
                    PersistedRecord(t, [state |-> "valid", short_id |-> <<>>,
                                        delete_time |-> "text"])]
    /\ tmpDir = [t \in TrashIds |-> "none"]
    /\ ProcInit
    /\ budget = [delete |-> 0, store |-> MaxStoreCmds]
    /\ probe = NoProbe

\* A restore command: its loop and the moves it calls.
NextRestore ==
    \/ \E n \in StoreNameSeqs, f \in RestoreForceChoices : BeginRestore(n, f)
    \/ \E confirm \in BOOLEAN : RestoreName(confirm)
    \/ MoveRename
    \/ MoveSymlinkCreate
    \/ MoveSymlinkRemove
    \/ MoveFileOpen
    \/ MoveCloneError
    \/ MoveBufferedCopy
    \/ MoveCopyError
    \/ MoveMmapStep
    \/ MoveFileRemove
    \/ MoveDirCreate
    \/ MoveDirPop
    \/ \E e \in Nodes : MoveDirEntry(e)
    \/ \E e \in Nodes : MoveDirEntryError(e)
    \/ MoveDirRemove
    \/ RestoreMoveFailed
    \/ RestoreMoveOk
    \/ RestoreRemoveMeta
    \/ RestoreEnd
    \/ Return
SpecRestore == InitRestore /\ [][NextRestore]_vars

\* handle_restore has returned.
RestoreReturned == pc = "done" /\ report.kind = "restored"
\* This step is a step of handle_restore.
RestoreStep ==
    \/ pc = "idle" /\ pc' = "res_loop"
    \/ pc \in {"res_loop", "res_rm"}
    \/ mv.caller = "restore"
\* The names of the command that resolve to the trash id t.
NamesOf(t) == {q \in 1..Len(names) : ResolveName(names[q]) = t}
\* A record is removed by restore only after the move of its item returned
\* success, or when its quarantined copy is found missing.
RemovedOnlyAfterSuccess ==
    \A t \in TrashIds :
        (RestoreStep /\ metaDir[t].state = "valid" /\ metaDir'[t] = NoMeta) =>
            \/ pc = "res_rm" /\ t = cur.trash_id
            \/ ~TrashPathExists(metaDir[t].trash_path)

====
